---- MODULE Spec2Model ----
(***************************************************************************)
(* TrafficGen-AI: the policy performance evaluation and multi-objective    *)
(* optimisation engine (modules/optimizer.py, modules/evaluator.py) and    *)
(* the statistical analyzer (modules/analytics.py).                        *)
(*                                                                         *)
(* The engines are pure functions.  Each is modelled as an operator that   *)
(* computes what the Python code computes, and is exercised by a harness:  *)
(* the harness state holds the arguments of a call and the value (or the   *)
(* exception) the call produced.                                           *)
(*                                                                         *)
(* Numbers.  Objective values are integers (the comparisons of the         *)
(* optimizer do not depend on the values being floats).  The evaluator's   *)
(* divisions are kept exact as fractions [num, den] with den > 0; the      *)
(* composite score, which the code rounds to two decimals, is held in      *)
(* hundredths.                                                             *)
(***************************************************************************)
EXTENDS Integers, Sequences, FiniteSets, TLC

VARIABLES
    policies_metrics,   \* optimizer argument: the dict {policy_name: metrics}, in insertion order
    opt_call,           \* the optimizer call made on policies_metrics and what it returned
    score_in,           \* calculate_composite_score arguments: metrics and weights
    score_out,          \* what calculate_composite_score returned
    simulation_data,    \* calculate_metrics argument
    metrics_out,        \* what calculate_metrics returned
    best_in,            \* identify_best_policy argument results_dict, in insertion order
    best_out,           \* the objective asked for and what identify_best_policy returned
    compare_in,         \* compare_policies arguments: baseline_metrics and policy_metrics
    compare_out,        \* what compare_policies returned
    results,            \* analyzer argument: {policy: {scenario: {'metrics': ...}}}
    stat_call,          \* the analyzer call made on results and what it returned
    sens_in,            \* perform_sensitivity_analysis arguments, base_metrics as the call left it
    sens_out,           \* what perform_sensitivity_analysis returned
    session,            \* st.session_state: generated_policies, simulation_results, pareto_front, statistical_analysis
    run,                \* run_simulations_premium in progress: its arguments, loop position and local results
    report              \* what the report page last handed to the report generators

vars == <<policies_metrics, opt_call, score_in, score_out, simulation_data, metrics_out,
          best_in, best_out, compare_in, compare_out, results, stat_call,
          sens_in, sens_out, session, run, report>>

(***************************************************************************)
(* Bounds of the model                                                     *)
(***************************************************************************)
\* most policies in a policy table
MaxPolicies == 3
\* most vehicle records in a batch
MaxVehicles == 2
\* most policies in the results handed to the statistical analyzer
MaxGroups == 2
\* most scenarios simulated for a policy
MaxScenarios == 2

(***************************************************************************)
(* Python helpers                                                          *)
(***************************************************************************)
\* dict.get(key, default)
Get(d, key, default) == IF key \in DOMAIN d THEN d[key] ELSE default

\* the elements of a sequence
Range(s) == {s[i] : i \in DOMAIN s}

Min2(a, b) == IF b < a THEN b ELSE a
Max2(a, b) == IF b > a THEN b ELSE a

RECURSIVE SumSeq(_)
SumSeq(s) == IF s = <<>> THEN 0 ELSE Head(s) + SumSeq(Tail(s))

(***************************************************************************)
(* modules/optimizer.py : MultiObjectiveOptimizer                          *)
(***************************************************************************)
objectives == <<"average_delay", "co2_emissions", "throughput", "average_speed">>
minimize_objectives == {"average_delay", "co2_emissions"}
maximize_objectives == {"throughput", "average_speed"}

\* One row of the objective matrix: metrics.get(obj, 0), negated for the
\* maximization objectives.
obj_values(metrics) ==
    [i \in 1..Len(objectives) |->
        LET value == Get(metrics, objectives[i], 0)
        IN  IF objectives[i] \in maximize_objectives THEN -value ELSE value]

\* Mutant of _dominates: the np.any(a < b) conjunct is lost, so equal vectors
\* dominate each other.
_dominates_without_strict(solution_a, solution_b) ==
    \A k \in DOMAIN solution_a : solution_a[k] <= solution_b[k]

\* np.all(solution_a <= solution_b) and np.any(solution_a < solution_b)
_dominates(solution_a, solution_b) ==
    /\ \A k \in DOMAIN solution_a : solution_a[k] <= solution_b[k]
    /\ \E k \in DOMAIN solution_a : solution_a[k] < solution_b[k]

\* The policy table is a sequence of [name, metrics] entries with distinct
\* names: a Python dict in its insertion order.
policy_names(pm) == [i \in 1..Len(pm) |-> pm[i].name]

\* Mutant of calculate_pareto_frontier: the inner loop runs over range(i), so
\* a policy is only compared with the policies inserted before it.
calculate_pareto_frontier_earlier_only(pm) ==
    LET n_policies == Len(pm)
        objective_matrix == [i \in 1..n_policies |-> obj_values(pm[i].metrics)]
        is_dominated(i) ==
            \E j \in 1..n_policies :
                j < i /\ _dominates(objective_matrix[j], objective_matrix[i])
        kept == SelectSeq([i \in 1..n_policies |-> i], LAMBDA i : ~is_dominated(i))
    IN  [k \in 1..Len(kept) |-> pm[kept[k]].name]

calculate_pareto_frontier(pm) ==
    LET n_policies == Len(pm)
        objective_matrix == [i \in 1..n_policies |-> obj_values(pm[i].metrics)]
        is_dominated(i) ==
            \E j \in 1..n_policies :
                i # j /\ _dominates(objective_matrix[j], objective_matrix[i])
        kept == SelectSeq([i \in 1..n_policies |-> i], LAMBDA i : ~is_dominated(i))
    IN  [k \in 1..Len(kept) |-> pm[kept[k]].name]

\* dominance_count.items(): the (policy, count) pairs in insertion order, the
\* count of a policy being the number of other policies that dominate it
RECURSIVE dominance_items(_, _)
dominance_items(pm, a) ==
    IF a > Len(pm) THEN <<>>
    ELSE LET dominance_count ==
                 Cardinality({b \in 1..Len(pm) :
                     /\ pm[a].name # pm[b].name
                     /\ _dominates(obj_values(pm[b].metrics), obj_values(pm[a].metrics))})
         IN  <<(<<pm[a].name, dominance_count>>)>> \o dominance_items(pm, a + 1)

\* sorted(items, key=lambda x: x[1]): Python's sort is stable, entries with
\* equal counts keep their order.  insert_by_count puts an item after every
\* item of an already sorted list whose count is not greater.
RECURSIVE insert_by_count(_, _)
insert_by_count(sorted_items, item) ==
    IF sorted_items = <<>> THEN <<item>>
    ELSE IF Head(sorted_items)[2] <= item[2]
    THEN <<Head(sorted_items)>> \o insert_by_count(Tail(sorted_items), item)
    ELSE <<item>> \o sorted_items

RECURSIVE sorted_by_count(_)
sorted_by_count(items) ==
    IF items = <<>> THEN <<>>
    ELSE insert_by_count(sorted_by_count(SubSeq(items, 1, Len(items) - 1)),
                         items[Len(items)])

\* Mutant of current_rank: current_rank += 1 at each strict increase (dense
\* ranking).
RECURSIVE current_rank_dense(_, _)
current_rank_dense(sorted_policies, k) ==
    IF k = 1 THEN 1
    ELSE IF sorted_policies[k][2] > sorted_policies[k - 1][2]
         THEN current_rank_dense(sorted_policies, k - 1) + 1
    ELSE current_rank_dense(sorted_policies, k - 1)

\* Mutant of current_rank: the tie test is lost, every policy gets its
\* position (naive enumeration).
current_rank_position(sorted_policies, k) == k

\* The rank loop.  k is the 1-based position in sorted_policies (the code's
\* i is k - 1, so its "current_rank = i + 1" is "current_rank = k").
RECURSIVE current_rank(_, _)
current_rank(sorted_policies, k) ==
    IF k = 1 THEN 1
    ELSE IF sorted_policies[k][2] > sorted_policies[k - 1][2] THEN k
    ELSE current_rank(sorted_policies, k - 1)

rank_policies_by_dominance(pm) ==
    LET sorted_policies == sorted_by_count(dominance_items(pm, 1))
    IN  [name \in Range(policy_names(pm)) |->
            LET k == CHOOSE k \in 1..Len(pm) : sorted_policies[k][1] = name
            IN  current_rank(sorted_policies, k)]

\* max() and min() of a non-empty list of integers
MaxOf(S) == CHOOSE x \in S : \A y \in S : y <= x
MinOf(S) == CHOOSE x \in S : \A y \in S : x <= y

\* The default reference point, in tenths (worst value * 1.1 for the
\* minimize objectives, worst value * 0.9 for the others).  max() and min()
\* of an empty list raise ValueError.
default_reference_point(pm) ==
    [i \in 1..Len(objectives) |->
        LET values == {Get(pm[p].metrics, objectives[i], 0) : p \in 1..Len(pm)}
        IN  IF objectives[i] \in minimize_objectives
            THEN MaxOf(values) * 11
            ELSE MinOf(values) * 9]

\* Mutant of calculate_hypervolume: a supplied reference point is used, only
\* the frontier policies whose delay and emissions lie within it are counted.
calculate_hypervolume_within_reference(pm, reference_point) ==
    IF ~reference_point.given /\ Len(pm) = 0
    THEN [error |-> "ValueError"]
    ELSE LET ref == IF reference_point.given THEN reference_point.point
                    ELSE default_reference_point(pm)
             pareto_policies == calculate_pareto_frontier(pm)
             within == {i \in 1..Len(pm) :
                          /\ pm[i].name \in Range(pareto_policies)
                          /\ Get(pm[i].metrics, objectives[1], 0) * 10 <= ref[1]
                          /\ Get(pm[i].metrics, objectives[2], 0) * 10 <= ref[2]}
         IN  IF Len(pareto_policies) = 0
             THEN [error |-> "", num |-> 0, den |-> 1]
             ELSE [error |-> "", num |-> Cardinality(within), den |-> Len(pm)]

\* reference_point is [given |-> FALSE] for None, [given |-> TRUE, point |-> p]
\* otherwise.  The value returned is a fraction [num, den], or the exception.
calculate_hypervolume(pm, reference_point) ==
    IF ~reference_point.given /\ Len(pm) = 0
    THEN [error |-> "ValueError"]
    ELSE LET ref == IF reference_point.given THEN reference_point.point
                    ELSE default_reference_point(pm)
             pareto_policies == calculate_pareto_frontier(pm)
         IN  IF Len(pareto_policies) = 0
             THEN [error |-> "", num |-> 0, den |-> 1]
             ELSE [error |-> "", num |-> Len(pareto_policies), den |-> Len(pm)]

(***************************************************************************)
(* Exact arithmetic for the evaluator: a fraction is [num, den], den > 0,  *)
(* in lowest terms.                                                        *)
(***************************************************************************)
Abs(x) == IF x < 0 THEN -x ELSE x

RECURSIVE Gcd(_, _)
Gcd(a, b) == IF b = 0 THEN a ELSE Gcd(b, a % b)

\* n / d for d # 0
Frac(n, d) ==
    LET g == Gcd(Abs(n), Abs(d))
        sign == IF d < 0 THEN -1 ELSE 1
    IN  [num |-> sign * (n \div g), den |-> sign * (d \div g)]

FracAdd(a, b) == Frac(a.num * b.den + b.num * a.den, a.den * b.den)
FracMul(a, b) == Frac(a.num * b.num, a.den * b.den)

\* round(x, 2), in hundredths; a tie goes to the even hundredth
Round2(x) ==
    LET scaled == x.num * 100
        floor == scaled \div x.den
        rest == scaled % x.den
    IN  IF 2 * rest < x.den THEN floor
        ELSE IF 2 * rest > x.den THEN floor + 1
        ELSE IF floor % 2 = 0 THEN floor ELSE floor + 1

(***************************************************************************)
(* modules/evaluator.py : PerformanceEvaluator.calculate_composite_score   *)
(***************************************************************************)
\* Mutant of clamp: the value is used as it comes.
clamp_missing(value, low, high) == value

\* min(max(value, low), high)
clamp(value, low, high) == Min2(Max2(value, low), high)

\* the default weights, 0.25 each, in hundredths
default_weights ==
    [key \in {"average_delay", "throughput", "co2_emissions", "average_speed"} |-> 25]

\* the sub-scores on the 0-100 scale
normalized(metrics) ==
    LET delay == clamp(Get(metrics, "average_delay", 150), 0, 300)
        throughput == clamp(Get(metrics, "throughput", 0), 0, 2000)
        emissions == clamp(Get(metrics, "co2_emissions", 500), 0, 1000)
        speed == clamp(Get(metrics, "average_speed", 0), 0, 60)
    IN  [average_delay |-> Frac((300 - delay) * 100, 300),
         throughput |-> Frac(throughput * 100, 2000),
         co2_emissions |-> Frac((1000 - emissions) * 100, 1000),
         average_speed |-> Frac(speed * 100, 60)]

\* sum(normalized.get(key, 0) * weight for key, weight in weights.items())
RECURSIVE weighted_sum(_, _, _)
weighted_sum(norm, weights, keys) ==
    IF keys = {} THEN Frac(0, 1)
    ELSE LET key == CHOOSE k \in keys : TRUE
         IN  FracAdd(FracMul(Get(norm, key, Frac(0, 1)), Frac(weights[key], 100)),
                     weighted_sum(norm, weights, keys \ {key}))

\* weights_arg is [given |-> FALSE] for None; a weight is held in hundredths.
\* The score returned is in hundredths (it is rounded to two decimals).
calculate_composite_score(metrics, weights_arg) ==
    LET weights == IF weights_arg.given THEN weights_arg.weights ELSE default_weights
        score == weighted_sum(normalized(metrics), weights, DOMAIN weights)
    IN  Round2(score)

(***************************************************************************)
(* modules/evaluator.py : PerformanceEvaluator.calculate_metrics           *)
(***************************************************************************)
_get_empty_metrics ==
    [average_delay |-> Frac(0, 1),
     throughput |-> Frac(0, 1),
     co2_emissions |-> Frac(0, 1),
     average_speed |-> Frac(0, 1),
     total_travel_time |-> Frac(0, 1)]

\* df.columns of pd.DataFrame(vehicles): every key some record carries
columns(vehicles) == UNION {DOMAIN vehicles[i] : i \in 1..Len(vehicles)}

\* the values of a column that are not NaN: those of the records that carry
\* the field (sum() and mean() skip NaN)
column_values(vehicles, field) ==
    LET having == SelectSeq(vehicles, LAMBDA v : field \in DOMAIN v)
    IN  [i \in 1..Len(having) |-> having[i][field]]

column_sum(vehicles, field) == SumSeq(column_values(vehicles, field))

column_mean(vehicles, field) ==
    Frac(column_sum(vehicles, field), Len(column_values(vehicles, field)))

\* len(df[df.get('completed', True)]).  Without a 'completed' column the key
\* is the scalar True and df[True] looks a column of that name up (KeyError);
\* a 'completed' column that some record lacks holds NaN and cannot be used
\* as a mask (ValueError); otherwise the rows whose flag is True are kept.
completed_vehicles(vehicles) ==
    IF "completed" \notin columns(vehicles)
    THEN [error |-> "KeyError", count |-> 0]
    ELSE IF \E i \in 1..Len(vehicles) : "completed" \notin DOMAIN vehicles[i]
    THEN [error |-> "ValueError", count |-> 0]
    ELSE [error |-> "",
          count |-> Len(SelectSeq(vehicles, LAMBDA v : v["completed"]))]

\* data is [has_vehicles, vehicles, has_time, simulation_time]: the two keys
\* of simulation_data, each present or not.  The value returned is
\* [error, metrics]; error is "" when the call returns.
calculate_metrics(data) ==
    LET vehicles == IF data.has_vehicles THEN data.vehicles ELSE <<>>
        total_time == IF data.has_time THEN data.simulation_time ELSE 3600
        cols == columns(vehicles)
        completed == completed_vehicles(vehicles)
    IN  IF Len(vehicles) = 0
        THEN [error |-> "", metrics |-> _get_empty_metrics]
        ELSE IF completed.error # ""
        THEN [error |-> completed.error, metrics |-> <<>>]
        ELSE IF total_time = 0
        THEN [error |-> "ZeroDivisionError", metrics |-> <<>>]
        ELSE [error |-> "",
              metrics |->
                [average_delay |->
                    IF "delay" \in cols THEN column_mean(vehicles, "delay")
                    ELSE Frac(0, 1),
                 throughput |-> Frac(completed.count * 3600, total_time),
                 co2_emissions |->
                    IF "co2_emissions" \in cols
                    THEN Frac(column_sum(vehicles, "co2_emissions"), 1000)
                    ELSE IF "distance" \in cols
                    THEN FracMul(Frac(column_sum(vehicles, "distance"), 1000),
                                 Frac(12, 100))
                    ELSE Frac(0, 1),
                 average_speed |->
                    IF "speed" \in cols
                    THEN FracMul(column_mean(vehicles, "speed"), Frac(36, 10))
                    ELSE Frac(0, 1),
                 total_travel_time |->
                    IF "travel_time" \in cols
                    THEN Frac(column_sum(vehicles, "travel_time"), 3600)
                    ELSE Frac(0, 1)]]

(***************************************************************************)
(* modules/evaluator.py : PerformanceEvaluator.compare_policies            *)
(***************************************************************************)
\* Mutant of _is_improvement: no change counts as an improvement.
_is_improvement_or_equal(metric_key, change) ==
    IF metric_key \in {"average_delay", "co2_emissions", "total_travel_time"}
    THEN change <= 0
    ELSE IF metric_key \in {"throughput", "average_speed"}
    THEN change >= 0
    ELSE FALSE

_is_improvement(metric_key, change) ==
    IF metric_key \in {"average_delay", "co2_emissions", "total_travel_time"}
    THEN change < 0
    ELSE IF metric_key \in {"throughput", "average_speed"}
    THEN change > 0
    ELSE FALSE

\* Mutant of percent_change: the quotient is not scaled to a percentage.
percent_change_unscaled(baseline_value, policy_value) ==
    IF baseline_value # 0
    THEN Frac(policy_value - baseline_value, baseline_value)
    ELSE IF policy_value = 0 THEN Frac(0, 1) ELSE Frac(100, 1)

\* (absolute_change / baseline_value) * 100, or 0.0 / 100.0 on a zero baseline
percent_change(baseline_value, policy_value) ==
    IF baseline_value # 0
    THEN FracMul(Frac(policy_value - baseline_value, baseline_value), Frac(100, 1))
    ELSE IF policy_value = 0 THEN Frac(0, 1) ELSE Frac(100, 1)

\* one entry of the comparison
comparison_entry(metric_key, baseline_value, policy_value) ==
    [baseline |-> baseline_value,
     policy |-> policy_value,
     absolute_change |-> policy_value - baseline_value,
     percent_change |-> percent_change(baseline_value, policy_value),
     is_improvement |-> _is_improvement(metric_key, policy_value - baseline_value)]

\* policy_metrics[metric_key] raises KeyError on a key only the baseline has
compare_policies(baseline_metrics, policy_metrics) ==
    IF \E metric_key \in DOMAIN baseline_metrics : metric_key \notin DOMAIN policy_metrics
    THEN [error |-> "KeyError", comparison |-> <<>>]
    ELSE [error |-> "none",
          comparison |-> [metric_key \in DOMAIN baseline_metrics |->
                             comparison_entry(metric_key, baseline_metrics[metric_key],
                                              policy_metrics[metric_key])]]

(***************************************************************************)
(* modules/evaluator.py : PerformanceEvaluator.identify_best_policy        *)
(* results_dict is a sequence of [name, metrics] in insertion order.  A    *)
(* value to compare is [inf, v]: float('inf') when inf, the number v       *)
(* otherwise.                                                              *)
(***************************************************************************)
supported_objectives == {"composite", "delay", "emissions", "throughput", "speed"}

value_less(a, b) == IF a.inf THEN FALSE ELSE IF b.inf THEN TRUE ELSE a.v < b.v

\* Mutant of metric_map_get: an unknown objective is taken as 'throughput'.
metric_map_get_throughput(objective) ==
    IF objective = "delay" THEN "average_delay"
    ELSE IF objective = "emissions" THEN "co2_emissions"
    ELSE IF objective = "throughput" THEN "throughput"
    ELSE IF objective = "speed" THEN "average_speed"
    ELSE "throughput"

\* metric_map.get(objective, 'average_delay')
metric_map_get(objective) ==
    IF objective = "delay" THEN "average_delay"
    ELSE IF objective = "emissions" THEN "co2_emissions"
    ELSE IF objective = "throughput" THEN "throughput"
    ELSE IF objective = "speed" THEN "average_speed"
    ELSE "average_delay"

\* {name: metrics.get(metric_key, float('inf') if is_lower_better else 0)}
RECURSIVE metric_values(_, _, _)
metric_values(results_dict, metric_key, is_lower_better) ==
    IF results_dict = <<>> THEN <<>>
    ELSE LET metrics == Head(results_dict).metrics
             value == IF metric_key \in DOMAIN metrics
                      THEN [inf |-> FALSE, v |-> metrics[metric_key]]
                      ELSE [inf |-> is_lower_better, v |-> 0]
         IN  <<[name |-> Head(results_dict).name, value |-> value]>>
             \o metric_values(Tail(results_dict), metric_key, is_lower_better)

\* {name: self.calculate_composite_score(metrics)}
RECURSIVE composite_scores(_)
composite_scores(results_dict) ==
    IF results_dict = <<>> THEN <<>>
    ELSE <<[name |-> Head(results_dict).name,
            value |-> [inf |-> FALSE,
                       v |-> calculate_composite_score(
                                 Head(results_dict).metrics,
                                 [given |-> FALSE, weights |-> <<>>])]]>>
         \o composite_scores(Tail(results_dict))

\* Mutant of min_by_value: the last of the policies is returned.
min_by_value_last(values, n) == values[n]

\* min(values, key=values.get): the first key, in insertion order, of the least value
RECURSIVE min_by_value(_, _)
min_by_value(values, n) ==
    IF n = 1 THEN values[1]
    ELSE LET best == min_by_value(values, n - 1)
         IN  IF value_less(values[n].value, best.value) THEN values[n] ELSE best

\* max(values, key=values.get): the first key, in insertion order, of the greatest value
RECURSIVE max_by_value(_, _)
max_by_value(values, n) ==
    IF n = 1 THEN values[1]
    ELSE LET best == max_by_value(values, n - 1)
         IN  IF value_less(best.value, values[n].value) THEN values[n] ELSE best

\* Mutant of identify_best_policy: None when no policy carries the metric asked for.
identify_best_policy_needs_metric(results_dict, objective) ==
    LET metric_key == metric_map_get(objective)
        is_lower_better ==
            metric_key \in {"average_delay", "co2_emissions", "total_travel_time"}
        values == metric_values(results_dict, metric_key, is_lower_better)
        scores == composite_scores(results_dict)
    IN  IF results_dict = <<>>
        THEN [error |-> "none", is_none |-> TRUE, name |-> 0]
        ELSE IF objective = "composite"
        THEN [error |-> "none", is_none |-> FALSE,
              name |-> max_by_value(scores, Len(scores)).name]
        ELSE IF \A i \in 1..Len(results_dict) :
                    metric_key \notin DOMAIN results_dict[i].metrics
        THEN [error |-> "none", is_none |-> TRUE, name |-> 0]
        ELSE IF is_lower_better
        THEN [error |-> "none", is_none |-> FALSE,
              name |-> min_by_value(values, Len(values)).name]
        ELSE [error |-> "none", is_none |-> FALSE,
              name |-> max_by_value(values, Len(values)).name]

\* The value returned: is_none for None, the policy name otherwise; no path of the
\* function raises.
identify_best_policy(results_dict, objective) ==
    LET metric_key == metric_map_get(objective)
        is_lower_better ==
            metric_key \in {"average_delay", "co2_emissions", "total_travel_time"}
        values == metric_values(results_dict, metric_key, is_lower_better)
        scores == composite_scores(results_dict)
    IN  IF results_dict = <<>>
        THEN [error |-> "none", is_none |-> TRUE, name |-> 0]
        ELSE IF objective = "composite"
        THEN [error |-> "none", is_none |-> FALSE,
              name |-> max_by_value(scores, Len(scores)).name]
        ELSE IF is_lower_better
        THEN [error |-> "none", is_none |-> FALSE,
              name |-> min_by_value(values, Len(values)).name]
        ELSE [error |-> "none", is_none |-> FALSE,
              name |-> max_by_value(values, Len(values)).name]

(***************************************************************************)
(* modules/analytics.py : StatisticalAnalyzer                              *)
(* results is a sequence, in insertion order, of [name, scenarios], and    *)
(* scenarios a sequence of [name, metrics]: results[policy][scenario]      *)
(* ['metrics'].  The sums of squares are exact fractions.  A probability   *)
(* is a double, [nan, value, ulps]: NaN when nan, and otherwise the double *)
(* that lies ulps units in the last place above the double nearest to the  *)
(* fraction value; the model only forms doubles whose ulps are few, so     *)
(* that they are ordered by value first and by ulps next.                  *)
(***************************************************************************)
FracLess(a, b) == a.num * b.den < b.num * a.den

Double(value) == [nan |-> FALSE, value |-> value, ulps |-> 0]

NaN == [nan |-> TRUE, value |-> Frac(0, 1), ulps |-> 0]

\* a < b on doubles; every comparison with NaN is false
DoubleLess(a, b) ==
    /\ ~a.nan
    /\ ~b.nan
    /\ \/ FracLess(a.value, b.value)
       \/ a.value = b.value /\ a.ulps < b.ulps

FracSub(a, b) == FracAdd(a, Frac(-b.num, b.den))

FracDiv(a, b) == Frac(a.num * b.den, a.den * b.num)

\* self.confidence_level = 0.95
confidence_level == Double(Frac(95, 100))

\* 1 - self.confidence_level.  The double 0.95 lies below 95/100, and the
\* subtraction, which is exact, gives 0.050000000000000044: the sixth double above
\* the double 0.05.
one_minus_confidence_level == [nan |-> FALSE, value |-> Frac(5, 100), ulps |-> 6]

metrics_list == <<"average_delay", "throughput", "co2_emissions", "average_speed">>

\* Mutant of scenario_values: a scenario without the metric gives no sample.
RECURSIVE scenario_values_present(_, _)
scenario_values_present(scenarios, metric) ==
    IF scenarios = <<>> THEN <<>>
    ELSE (IF metric \in DOMAIN Head(scenarios).metrics
          THEN <<Head(scenarios).metrics[metric]>> ELSE <<>>)
         \o scenario_values_present(Tail(scenarios), metric)

\* [scenario_data['metrics'].get(metric, 0) for scenario_data in policy_results.values()]
RECURSIVE scenario_values(_, _)
scenario_values(scenarios, metric) ==
    IF scenarios = <<>> THEN <<>>
    ELSE <<Get(Head(scenarios).metrics, metric, 0)>>
         \o scenario_values(Tail(scenarios), metric)

\* policy_data: one list of values per policy
RECURSIVE policy_data(_, _)
policy_data(table, metric) ==
    IF table = <<>> THEN <<>>
    ELSE <<scenario_values(Head(table).scenarios, metric)>>
         \o policy_data(Tail(table), metric)

RECURSIVE SumOfSquares(_)
SumOfSquares(values) ==
    IF values = <<>> THEN 0
    ELSE Head(values) * Head(values) + SumOfSquares(Tail(values))

\* sum over the groups of (sum of the group)^2 / len(group)
RECURSIVE SquaredSumsOverSizes(_)
SquaredSumsOverSizes(samples) ==
    IF samples = <<>> THEN Frac(0, 1)
    ELSE FracAdd(Frac(SumSeq(Head(samples)) * SumSeq(Head(samples)), Len(Head(samples))),
                 SquaredSumsOverSizes(Tail(samples)))

RECURSIVE Concat(_)
Concat(samples) ==
    IF samples = <<>> THEN <<>> ELSE Head(samples) \o Concat(Tail(samples))

\* stats.f_oneway(*policy_data).  The F statistic is the ratio of the mean squares
\* between and within the groups; NaN when there is one group or an empty group,
\* when every group has one value, or when all the values are equal; infinite,
\* with p = 0, when every group is constant and the groups differ.  The p-value of a finite positive F is
\* the tail of the F distribution, which the model takes from p_of_f; F = 0 has
\* p = 1.
f_oneway(samples, p_of_f) ==
    LET alldata == Concat(samples)
        bign == Len(alldata)
        num_groups == Len(samples)
        between == SquaredSumsOverSizes(samples)
        ssbn == FracSub(between, Frac(SumSeq(alldata) * SumSeq(alldata), bign))
        sswn == FracSub(Frac(SumOfSquares(alldata), 1), between)
        dfbn == num_groups - 1
        dfwn == bign - num_groups
        nan == [f_statistic |-> [kind |-> "nan", value |-> Frac(0, 1)], p_value |-> NaN]
    IN  IF num_groups < 2 \/ \E i \in 1..num_groups : Len(samples[i]) = 0 THEN nan
        ELSE IF dfwn = 0 THEN nan
        ELSE IF sswn.num = 0
        THEN IF ssbn.num = 0 THEN nan
             ELSE [f_statistic |-> [kind |-> "inf", value |-> Frac(0, 1)],
                   p_value |-> Double(Frac(0, 1))]
        ELSE LET f == FracDiv(FracDiv(ssbn, Frac(dfbn, 1)), FracDiv(sswn, Frac(dfwn, 1)))
             IN  [f_statistic |-> [kind |-> "number", value |-> f],
                  p_value |-> IF f.num = 0 THEN Double(Frac(1, 1)) ELSE p_of_f]

\* the literals 0.001, 0.01 and 0.05 are the doubles nearest to them
_interpret_anova(p_value) ==
    IF DoubleLess(p_value, Double(Frac(1, 1000)))
    THEN "Highly significant difference between policies (p < 0.001)"
    ELSE IF DoubleLess(p_value, Double(Frac(1, 100)))
    THEN "Very significant difference between policies (p < 0.01)"
    ELSE IF DoubleLess(p_value, Double(Frac(5, 100)))
    THEN "Significant difference between policies (p < 0.05)"
    ELSE "No significant difference between policies (p >= 0.05)"

\* one entry of anova_results
anova_entry(samples, p_of_f) ==
    LET test == f_oneway(samples, p_of_f)
    IN  [f_statistic |-> test.f_statistic,
         p_value |-> test.p_value,
         significant |-> DoubleLess(test.p_value, one_minus_confidence_level),
         interpretation |-> _interpret_anova(test.p_value)]

\* Mutant of anova_guard: one group is enough.
anova_guard_one_group(samples) ==
    /\ Len(samples) > 0
    /\ \A i \in 1..Len(samples) : Len(samples[i]) > 0

\* len(policy_data) > 1 and all(len(data) > 0 for data in policy_data)
anova_guard(samples) ==
    /\ Len(samples) > 1
    /\ \A i \in 1..Len(samples) : Len(samples[i]) > 0

\* p_oracle[metric] stands for the p-value scipy computes from the F statistic of
\* that metric.  A metric whose groups fail the guard gets no entry, and nothing
\* is raised.
perform_anova(table, p_oracle) ==
    LET tested == {metric \in Range(metrics_list) : anova_guard(policy_data(table, metric))}
    IN  [error |-> "none",
         anova_results |->
             [metric \in tested |-> anova_entry(policy_data(table, metric), p_oracle[metric])]]

\* the values of a metric over the scenarios that carry it, as metrics_data[metric]
\* collects them
RECURSIVE metrics_data(_, _)
metrics_data(scenarios, metric) ==
    IF scenarios = <<>> THEN <<>>
    ELSE (IF metric \in DOMAIN Head(scenarios).metrics
          THEN <<Head(scenarios).metrics[metric]>> ELSE <<>>)
         \o metrics_data(Tail(scenarios), metric)

\* the keys of metrics_data
metrics_seen(scenarios) ==
    UNION {DOMAIN scenarios[i].metrics : i \in 1..Len(scenarios)}

\* Mutant of enough_samples: one sample is enough.
enough_samples_one(values) == Len(values) > 0

\* len(values) > 1
enough_samples(values) == Len(values) > 1

\* ci_results[policy_name]: an entry for each metric with enough samples.  mean is
\* np.mean(values); lower, upper and margin_of_error are mean -/+ t * sem as scipy
\* computes them from the same samples and are not carried by the model.
policy_intervals(scenarios) ==
    [metric \in {m \in metrics_seen(scenarios) : enough_samples(metrics_data(scenarios, m))}
        |-> [mean |-> Frac(SumSeq(metrics_data(scenarios, metric)),
                           Len(metrics_data(scenarios, metric))),
             samples |-> Len(metrics_data(scenarios, metric))]]

\* every policy of results gets its mapping, empty or not
RECURSIVE calculate_confidence_intervals(_)
calculate_confidence_intervals(table) ==
    IF table = <<>> THEN <<>>
    ELSE <<[name |-> Head(table).name,
            intervals |-> policy_intervals(Head(table).scenarios)]>>
         \o calculate_confidence_intervals(Tail(table))

\* all_data: the metrics of every scenario of every policy
RECURSIVE pooled_metrics(_)
pooled_metrics(table) ==
    IF table = <<>> THEN <<>>
    ELSE [i \in 1..Len(Head(table).scenarios) |-> Head(table).scenarios[i].metrics]
         \o pooled_metrics(Tail(table))

\* Mutant of numeric_cols: a column needs two samples that carry it.
numeric_cols_two_samples(all_data) ==
    {key \in UNION {DOMAIN all_data[i] : i \in 1..Len(all_data)} :
        Cardinality({i \in 1..Len(all_data) : key \in DOMAIN all_data[i]}) >= 2}

\* pd.DataFrame(all_data) has one column per key of any sample, NaN where a sample
\* lacks the key; the metric values being numbers, every column is numeric.
numeric_cols(all_data) ==
    UNION {DOMAIN all_data[i] : i \in 1..Len(all_data)}

\* df[numeric_cols].corr(): rows and columns are the numeric columns.  A
\* coefficient is computed from the samples that carry both keys, and is NaN with
\* fewer than two of them; observations is that number of samples.
calculate_correlation_matrix(table) ==
    LET all_data == pooled_metrics(table)
        cols == numeric_cols(all_data)
    IN  [index |-> cols,
         columns |-> cols,
         observations |->
             [pair \in cols \X cols |->
                 Cardinality({i \in 1..Len(all_data) :
                                 /\ pair[1] \in DOMAIN all_data[i]
                                 /\ pair[2] \in DOMAIN all_data[i]})]]

(***************************************************************************)
(* modules/analytics.py : StatisticalAnalyzer.perform_sensitivity_analysis *)
(* A parameter name is a sequence of characters.  The metric values are    *)
(* exact fractions.  numpy_floats tells whether the values of base_metrics *)
(* are numpy floats, whose division by zero gives NaN, or Python floats,   *)
(* whose division by zero raises ZeroDivisionError.                        *)
(***************************************************************************)
UpperCase ==
    <<"A", "B", "C", "D", "E", "F", "G", "H", "I", "J", "K", "L", "M",
      "N", "O", "P", "Q", "R", "S", "T", "U", "V", "W", "X", "Y", "Z">>

LowerCase ==
    <<"a", "b", "c", "d", "e", "f", "g", "h", "i", "j", "k", "l", "m",
      "n", "o", "p", "q", "r", "s", "t", "u", "v", "w", "x", "y", "z">>

\* parameter.lower()
lower(parameter) ==
    [i \in 1..Len(parameter) |->
        IF \E k \in 1..Len(UpperCase) : UpperCase[k] = parameter[i]
        THEN LowerCase[CHOOSE k \in 1..Len(UpperCase) : UpperCase[k] = parameter[i]]
        ELSE parameter[i]]

\* word in name
contains(name, word) ==
    \E i \in 1..(Len(name) - Len(word) + 1) : SubSeq(name, i, i + Len(word) - 1) = word

\* varied_metrics[key] *= by
scaled(varied_metrics, key, by) ==
    [varied_metrics EXCEPT ![key] = FracMul(@, by)]

\* Mutant of after_variation: varied_metrics is base_metrics itself, not a copy.
after_variation_aliased(base_metrics, varied_metrics) == varied_metrics

\* base_metrics once _apply_parameter_variation has returned: varied_metrics is
\* base_metrics.copy(), the stores go to the copy and base_metrics keeps its items
after_variation(base_metrics, varied_metrics) == base_metrics

\* The value returned, varied_metrics, and base_metrics as the call leaves it.  A
\* store to a key that base_metrics lacks raises KeyError, 1 / factor raises
\* ZeroDivisionError on a zero factor.
_apply_parameter_variation(base_metrics, parameter, factor) ==
    LET name == lower(parameter)
        one == Frac(1, 1)
        less_one == FracSub(factor, one)
        failed(error) ==
            [error |-> error, varied_metrics |-> base_metrics, base_metrics |-> base_metrics]
        returned(varied_metrics) ==
            [error |-> "none", varied_metrics |-> varied_metrics,
             base_metrics |-> after_variation(base_metrics, varied_metrics)]
    IN  IF \/ contains(name, <<"s", "i", "g", "n", "a", "l">>)
           \/ contains(name, <<"t", "i", "m", "i", "n", "g">>)
        THEN IF {"average_delay", "throughput"} \subseteq DOMAIN base_metrics
             THEN returned(scaled(scaled(base_metrics, "average_delay",
                                         FracAdd(one, FracMul(less_one, Frac(5, 10)))),
                                  "throughput",
                                  FracSub(one, FracMul(less_one, Frac(3, 10)))))
             ELSE failed("KeyError")
        ELSE IF contains(name, <<"s", "p", "e", "e", "d">>)
        THEN IF {"average_speed", "co2_emissions"} \subseteq DOMAIN base_metrics
             THEN returned(scaled(scaled(base_metrics, "average_speed", factor),
                                  "co2_emissions",
                                  FracAdd(one, FracMul(less_one, Frac(4, 10)))))
             ELSE failed("KeyError")
        ELSE IF contains(name, <<"c", "a", "p", "a", "c", "i", "t", "y">>)
        THEN IF ~({"throughput", "average_delay"} \subseteq DOMAIN base_metrics)
             THEN failed("KeyError")
             ELSE IF factor.num = 0 THEN failed("ZeroDivisionError")
             ELSE returned(scaled(scaled(base_metrics, "throughput", factor),
                                  "average_delay", FracDiv(one, factor)))
        ELSE returned(base_metrics)

\* (varied_metrics[key] - base_metrics[key]) / base_metrics[key] * 100, the keys
\* being there.  With a zero base value the difference is zero too: 0 / 0 is NaN
\* on numpy floats.
percent_of_base(varied_metrics, base_metrics, key) ==
    IF base_metrics[key].num = 0 THEN NaN
    ELSE Double(FracMul(FracDiv(FracSub(varied_metrics[key], base_metrics[key]),
                                base_metrics[key]),
                        Frac(100, 1)))

\* one row of sensitivity_data, or the exception its computation raises
sensitivity_row(varied_metrics, base_metrics, numpy_floats, parameter, factor) ==
    LET keys == {"average_delay", "throughput", "co2_emissions"}
    IN  IF ~(keys \subseteq DOMAIN base_metrics)
        THEN [error |-> "KeyError"]
        ELSE IF ~numpy_floats /\ \E key \in keys : base_metrics[key].num = 0
        THEN [error |-> "ZeroDivisionError"]
        ELSE [error |-> "none",
              parameter |-> parameter,
              variation_factor |-> factor,
              delay_change |-> percent_of_base(varied_metrics, base_metrics, "average_delay"),
              throughput_change |-> percent_of_base(varied_metrics, base_metrics, "throughput"),
              emissions_change |->
                  percent_of_base(varied_metrics, base_metrics, "co2_emissions")]

\* the pairs (param, factor) in the order of the two loops
RECURSIVE variation_pairs(_)
variation_pairs(parameter_variations) ==
    IF parameter_variations = <<>> THEN <<>>
    ELSE [i \in 1..Len(Head(parameter_variations).factors) |->
             [parameter |-> Head(parameter_variations).parameter,
              factor |-> Head(parameter_variations).factors[i]]]
         \o variation_pairs(Tail(parameter_variations))

\* the loop over the pairs: the rows so far, the varied metrics of each row, and
\* base_metrics as the calls so far left it; the first exception ends the call
RECURSIVE sensitivity_loop(_, _, _, _)
sensitivity_loop(base_metrics, numpy_floats, pairs, n) ==
    IF n = 0
    THEN [error |-> "none", rows |-> <<>>, varied |-> <<>>, base_metrics |-> base_metrics]
    ELSE LET before == sensitivity_loop(base_metrics, numpy_floats, pairs, n - 1)
             applied == _apply_parameter_variation(before.base_metrics,
                                                   pairs[n].parameter, pairs[n].factor)
             row == sensitivity_row(applied.varied_metrics, applied.base_metrics,
                                    numpy_floats, pairs[n].parameter, pairs[n].factor)
         IN  IF before.error # "none" THEN before
             ELSE IF applied.error # "none"
             THEN [before EXCEPT !.error = applied.error]
             ELSE IF row.error # "none"
             THEN [before EXCEPT !.error = row.error,
                                 !.base_metrics = applied.base_metrics]
             ELSE [error |-> "none",
                   rows |-> Append(before.rows, row),
                   varied |-> Append(before.varied, applied.varied_metrics),
                   base_metrics |-> applied.base_metrics]

\* pd.DataFrame(sensitivity_data): the rows, with base_metrics as the call leaves it
perform_sensitivity_analysis(base_metrics, numpy_floats, parameter_variations) ==
    LET pairs == variation_pairs(parameter_variations)
    IN  sensitivity_loop(base_metrics, numpy_floats, pairs, Len(pairs))

(***************************************************************************)
(* Harness of the optimizer: a policy table is built one policy at a time  *)
(* and one of the three analyses is then called on it.                     *)
(***************************************************************************)
\* values an objective takes in the tables of the model
ObjValues == {1, 2}

\* metric sets that carry all four objectives
FullMetricSets == [Range(objectives) -> ObjValues]

\* reference_point arguments: omitted, or one of two supplied points
ReferencePoints ==
    {[given |-> FALSE, point |-> <<>>],
     [given |-> TRUE, point |-> <<0, 0, 0, 0>>],
     [given |-> TRUE, point |-> <<3, 3, 1, 1>>]}

\* policies_metrics[name] = metrics for a new key; the k-th policy inserted is
\* named k ("Policy k", src/app.py:727).
AddPolicy ==
    /\ opt_call.op = "none"
    /\ Len(policies_metrics) < MaxPolicies
    /\ \E metrics \in FullMetricSets :
          policies_metrics' =
              Append(policies_metrics,
                     [name |-> Len(policies_metrics) + 1, metrics |-> metrics])
    /\ UNCHANGED <<opt_call, score_in, score_out, simulation_data, metrics_out,
                 best_in, best_out, compare_in, compare_out, results, stat_call, sens_in, sens_out,
                   session, run, report>>

CallParetoFrontier ==
    /\ opt_call.op = "none"
    /\ opt_call' = [op |-> "calculate_pareto_frontier",
                    result |-> calculate_pareto_frontier(policies_metrics)]
    /\ UNCHANGED <<policies_metrics, score_in, score_out, simulation_data, metrics_out,
                 best_in, best_out, compare_in, compare_out, results, stat_call, sens_in, sens_out,
                   session, run, report>>

CallRankPolicies ==
    /\ opt_call.op = "none"
    /\ opt_call' = [op |-> "rank_policies_by_dominance",
                    result |-> rank_policies_by_dominance(policies_metrics)]
    /\ UNCHANGED <<policies_metrics, score_in, score_out, simulation_data, metrics_out,
                 best_in, best_out, compare_in, compare_out, results, stat_call, sens_in, sens_out,
                   session, run, report>>

CallHypervolume ==
    /\ opt_call.op = "none"
    /\ \E reference_point \in ReferencePoints :
          opt_call' = [op |-> "calculate_hypervolume",
                       reference_point |-> reference_point,
                       result |-> calculate_hypervolume(policies_metrics, reference_point)]
    /\ UNCHANGED <<policies_metrics, score_in, score_out, simulation_data, metrics_out,
                 best_in, best_out, compare_in, compare_out, results, stat_call, sens_in, sens_out,
                   session, run, report>>

\* the harnesses at rest
ScoreIdle ==
    /\ score_in = [metrics |-> <<>>, weights_arg |-> [given |-> FALSE, weights |-> <<>>]]
    /\ score_out = [done |-> FALSE]

MetricsIdle ==
    /\ simulation_data = [has_vehicles |-> FALSE, vehicles |-> <<>>,
                          has_time |-> FALSE, simulation_time |-> 0]
    /\ metrics_out = [done |-> FALSE]

OptimizerIdle ==
    /\ policies_metrics = <<>>
    /\ opt_call = [op |-> "none"]

BestIdle ==
    /\ best_in = <<>>
    /\ best_out = [done |-> FALSE]

CompareIdle ==
    /\ compare_in = [baseline_metrics |-> <<>>, policy_metrics |-> <<>>]
    /\ compare_out = [done |-> FALSE]

AnalyzerIdle ==
    /\ results = <<>>
    /\ stat_call = [op |-> "none"]

SensitivityIdle ==
    /\ sens_in = [base_metrics |-> <<>>, numpy_floats |-> FALSE,
                  parameter_variations |-> <<>>]
    /\ sens_out = [done |-> FALSE]

\* no run_simulations_premium in progress: its locals are gone
no_run(state) ==
    [state |-> state, policy_indices |-> <<>>, scenario_names |-> <<>>,
     policy_pos |-> 0, scenario_pos |-> 0, results |-> <<>>]

\* the session as app.py initialises it, no run started, no report generated
SessionIdle ==
    /\ session = [generated_policies |-> <<>>, simulation_results |-> <<>>,
                  pareto_front |-> <<>>, statistical_analysis |-> <<>>]
    /\ run = no_run("idle")
    /\ report = [generated |-> FALSE]

InitOptimizer ==
    /\ policies_metrics = <<>>
    /\ opt_call = [op |-> "none"]
    /\ ScoreIdle
    /\ MetricsIdle
    /\ BestIdle
    /\ CompareIdle
    /\ AnalyzerIdle
    /\ SensitivityIdle
    /\ SessionIdle

NextOptimizer ==
    \/ AddPolicy
    \/ CallParetoFrontier
    \/ CallRankPolicies
    \/ CallHypervolume

SpecOptimizer == InitOptimizer /\ [][NextOptimizer]_vars

(***************************************************************************)
(* Harness of the optimizer on tables whose policies dominate one another, *)
(* tie or trade off: the best and the worst metric set, and two sets       *)
(* between them that neither dominates.                                    *)
(***************************************************************************)
OrderedMetricSets ==
    {[average_delay |-> 1, co2_emissions |-> 1, throughput |-> 2, average_speed |-> 2],
     [average_delay |-> 1, co2_emissions |-> 2, throughput |-> 1, average_speed |-> 1],
     [average_delay |-> 2, co2_emissions |-> 1, throughput |-> 1, average_speed |-> 1],
     [average_delay |-> 2, co2_emissions |-> 2, throughput |-> 1, average_speed |-> 1]}

AddOrderedPolicy ==
    /\ opt_call.op = "none"
    /\ Len(policies_metrics) < MaxPolicies
    /\ \E metrics \in OrderedMetricSets :
          policies_metrics' =
              Append(policies_metrics,
                     [name |-> Len(policies_metrics) + 1, metrics |-> metrics])
    /\ UNCHANGED <<opt_call, score_in, score_out, simulation_data, metrics_out,
                   best_in, best_out, compare_in, compare_out, results, stat_call,
                   sens_in, sens_out, session, run, report>>

NextReorder ==
    \/ AddOrderedPolicy
    \/ CallParetoFrontier
    \/ CallRankPolicies
    \/ CallHypervolume

SpecReorder == InitOptimizer /\ [][NextReorder]_vars

(***************************************************************************)
(* Harness of identify_best_policy: results_dict is filled one policy at a *)
(* time, with metric sets that tie, differ and lack keys, and the function *)
(* is then called with a supported or an unsupported objective.            *)
(***************************************************************************)
BestMetricSets ==
    {[average_delay |-> 10, throughput |-> 1500, co2_emissions |-> 200,
      average_speed |-> 45],
     [average_delay |-> 5, throughput |-> 1200, co2_emissions |-> 300,
      average_speed |-> 30],
     [throughput |-> 1500, co2_emissions |-> 200],
     [average_delay |-> 5]}

BestObjectives == supported_objectives \cup {"travel_time", "cost"}

InitBest ==
    /\ best_in = <<>>
    /\ best_out = [done |-> FALSE]
    /\ OptimizerIdle
    /\ ScoreIdle
    /\ MetricsIdle
    /\ CompareIdle
    /\ AnalyzerIdle
    /\ SensitivityIdle
    /\ SessionIdle

AddBestPolicy ==
    /\ ~best_out.done
    /\ Len(best_in) < MaxPolicies
    /\ \E metrics \in BestMetricSets :
           best_in' = Append(best_in, [name |-> Len(best_in) + 1, metrics |-> metrics])
    /\ UNCHANGED <<policies_metrics, opt_call, score_in, score_out, simulation_data,
                   metrics_out, best_out, compare_in, compare_out, results, stat_call, sens_in, sens_out,
                   session, run, report>>

CallIdentifyBestPolicy ==
    /\ ~best_out.done
    /\ \E objective \in BestObjectives :
           LET returned == identify_best_policy(best_in, objective)
           IN  best_out' = [done |-> TRUE, objective |-> objective,
                            error |-> returned.error, is_none |-> returned.is_none,
                            name |-> returned.name]
    /\ UNCHANGED <<policies_metrics, opt_call, score_in, score_out, simulation_data,
                   metrics_out, best_in, compare_in, compare_out, results, stat_call, sens_in, sens_out,
                   session, run, report>>

NextBest == AddBestPolicy \/ CallIdentifyBestPolicy

SpecBest == InitBest /\ [][NextBest]_vars

(***************************************************************************)
(* Harness of identify_best_policy on mappings that carry the four         *)
(* objective metrics, with delays at and beyond the 300 s the composite    *)
(* score assumes as the worst delay.                                       *)
(***************************************************************************)
CompositeMetricSets ==
    {[average_delay |-> 300, throughput |-> 1500, co2_emissions |-> 200,
      average_speed |-> 45],
     [average_delay |-> 450, throughput |-> 1500, co2_emissions |-> 200,
      average_speed |-> 45],
     [average_delay |-> 120, throughput |-> 1500, co2_emissions |-> 200,
      average_speed |-> 45],
     [average_delay |-> 120, throughput |-> 1200, co2_emissions |-> 100,
      average_speed |-> 45]}

AddCompositePolicy ==
    /\ ~best_out.done
    /\ Len(best_in) < MaxPolicies
    /\ \E metrics \in CompositeMetricSets :
           best_in' = Append(best_in, [name |-> Len(best_in) + 1, metrics |-> metrics])
    /\ UNCHANGED <<policies_metrics, opt_call, score_in, score_out, simulation_data,
                   metrics_out, best_out, compare_in, compare_out, results, stat_call,
                   sens_in, sens_out, session, run, report>>

NextComposite == AddCompositePolicy \/ CallIdentifyBestPolicy

SpecComposite == InitBest /\ [][NextComposite]_vars

(***************************************************************************)
(* Harness of compare_policies: the two metric sets are drawn at the       *)
(* start, the function is called once.                                     *)
(***************************************************************************)
CompareKeys == {"average_delay", "throughput", "queue_length"}

CompareValues == {0, 20, 50}

CompareMetricSets ==
    UNION {[keys -> CompareValues] : keys \in SUBSET CompareKeys}

InitCompare ==
    /\ compare_in \in [baseline_metrics : CompareMetricSets,
                       policy_metrics : CompareMetricSets]
    /\ compare_out = [done |-> FALSE]
    /\ OptimizerIdle
    /\ ScoreIdle
    /\ MetricsIdle
    /\ BestIdle
    /\ AnalyzerIdle
    /\ SensitivityIdle
    /\ SessionIdle

CallComparePolicies ==
    /\ ~compare_out.done
    /\ LET returned == compare_policies(compare_in.baseline_metrics,
                                        compare_in.policy_metrics)
       IN  compare_out' = [done |-> TRUE, error |-> returned.error,
                           comparison |-> returned.comparison]
    /\ UNCHANGED <<policies_metrics, opt_call, score_in, score_out, simulation_data,
                   metrics_out, best_in, best_out, compare_in, results, stat_call, sens_in, sens_out,
                   session, run, report>>

NextCompare == CallComparePolicies

SpecCompare == InitCompare /\ [][NextCompare]_vars

(***************************************************************************)
(* Harness of the statistical analyzer: results is filled as the app fills *)
(* it, policy after policy and scenario after scenario, with metric sets   *)
(* that carry every key or only one, and one analysis is called on it.     *)
(***************************************************************************)
StatMetricSets ==
    {[average_delay |-> 3, throughput |-> 15, co2_emissions |-> 2, average_speed |-> 4],
     [average_delay |-> 6]}

\* p-values on and around the thresholds, one per tested metric
POracles ==
    {[average_delay |-> Double(Frac(0, 1)), throughput |-> Double(Frac(1, 1000)),
      co2_emissions |-> Double(Frac(1, 100)), average_speed |-> Double(Frac(5, 100))],
     [average_delay |-> Double(Frac(1, 2000)), throughput |-> Double(Frac(1, 200)),
      co2_emissions |-> Double(Frac(3, 100)),
      average_speed |-> [nan |-> FALSE, value |-> Frac(5, 100), ulps |-> 6]],
     [average_delay |-> Double(Frac(1, 1)), throughput |-> Double(Frac(9, 10000)),
      co2_emissions |-> Double(Frac(99, 10000)),
      average_speed |-> Double(Frac(499, 10000))]}

InitAnalyzer ==
    /\ results = <<>>
    /\ stat_call = [op |-> "none"]
    /\ OptimizerIdle
    /\ ScoreIdle
    /\ MetricsIdle
    /\ BestIdle
    /\ CompareIdle
    /\ SensitivityIdle
    /\ SessionIdle

AddAnalyzerPolicy ==
    /\ stat_call.op = "none"
    /\ Len(results) < MaxGroups
    /\ results' = Append(results, [name |-> Len(results) + 1, scenarios |-> <<>>])
    /\ UNCHANGED <<policies_metrics, opt_call, score_in, score_out, simulation_data,
                   metrics_out, best_in, best_out, compare_in, compare_out, stat_call, sens_in, sens_out,
                   session, run, report>>

AddScenario ==
    /\ stat_call.op = "none"
    /\ results # <<>>
    /\ LET last == results[Len(results)]
       IN  /\ Len(last.scenarios) < MaxScenarios
           /\ \E metrics \in StatMetricSets :
                  results' =
                      [results EXCEPT ![Len(results)].scenarios =
                          Append(last.scenarios,
                                 [name |-> Len(last.scenarios) + 1, metrics |-> metrics])]
    /\ UNCHANGED <<policies_metrics, opt_call, score_in, score_out, simulation_data,
                   metrics_out, best_in, best_out, compare_in, compare_out, stat_call, sens_in, sens_out,
                   session, run, report>>

CallPerformAnova ==
    /\ stat_call.op = "none"
    /\ \E p_oracle \in POracles :
           LET returned == perform_anova(results, p_oracle)
           IN  stat_call' = [op |-> "perform_anova", p_oracle |-> p_oracle,
                             error |-> returned.error,
                             result |-> returned.anova_results]
    /\ UNCHANGED <<policies_metrics, opt_call, score_in, score_out, simulation_data,
                   metrics_out, best_in, best_out, compare_in, compare_out, results, sens_in, sens_out,
                   session, run, report>>

CallConfidenceIntervals ==
    /\ stat_call.op = "none"
    /\ stat_call' = [op |-> "calculate_confidence_intervals",
                     result |-> calculate_confidence_intervals(results)]
    /\ UNCHANGED <<policies_metrics, opt_call, score_in, score_out, simulation_data,
                   metrics_out, best_in, best_out, compare_in, compare_out, results, sens_in, sens_out,
                   session, run, report>>

CallCorrelationMatrix ==
    /\ stat_call.op = "none"
    /\ stat_call' = [op |-> "calculate_correlation_matrix",
                     result |-> calculate_correlation_matrix(results)]
    /\ UNCHANGED <<policies_metrics, opt_call, score_in, score_out, simulation_data,
                   metrics_out, best_in, best_out, compare_in, compare_out, results, sens_in, sens_out,
                   session, run, report>>

NextAnalyzer ==
    \/ AddAnalyzerPolicy
    \/ AddScenario
    \/ CallPerformAnova
    \/ CallConfidenceIntervals
    \/ CallCorrelationMatrix

SpecAnalyzer == InitAnalyzer /\ [][NextAnalyzer]_vars

(***************************************************************************)
(* Harness of the calls on tables that lack metric keys: either a policy   *)
(* table with incomplete metric sets is built and handed to the optimizer, *)
(* or results with incomplete metric sets are built and handed to          *)
(* perform_anova.                                                          *)
(***************************************************************************)
PartialMetricSets ==
    {[average_delay |-> 1, co2_emissions |-> 1, throughput |-> 1, average_speed |-> 1],
     [co2_emissions |-> 1, throughput |-> 1, average_speed |-> 1],
     [average_delay |-> 1, co2_emissions |-> 1, average_speed |-> 1],
     [average_delay |-> 2, co2_emissions |-> 1, throughput |-> 2, average_speed |-> 1]}

InitMissingKeys ==
    /\ OptimizerIdle
    /\ AnalyzerIdle
    /\ ScoreIdle
    /\ MetricsIdle
    /\ BestIdle
    /\ CompareIdle
    /\ SensitivityIdle
    /\ SessionIdle

AddPartialPolicy ==
    /\ opt_call.op = "none"
    /\ Len(policies_metrics) < MaxPolicies
    /\ \E metrics \in PartialMetricSets :
           policies_metrics' =
               Append(policies_metrics,
                      [name |-> Len(policies_metrics) + 1, metrics |-> metrics])
    /\ UNCHANGED <<opt_call, score_in, score_out, simulation_data, metrics_out,
                   best_in, best_out, compare_in, compare_out, results, stat_call, sens_in, sens_out,
                   session, run, report>>

\* one table is analysed in a run: the optimizer's or the analyzer's
OptimizerOnPartialTable ==
    /\ AnalyzerIdle
    /\ (AddPartialPolicy \/ CallParetoFrontier \/ CallRankPolicies)

AnovaOnPartialResults ==
    /\ OptimizerIdle
    /\ (AddAnalyzerPolicy \/ AddScenario \/ CallPerformAnova)

NextMissingKeys == OptimizerOnPartialTable \/ AnovaOnPartialResults

SpecMissingKeys == InitMissingKeys /\ [][NextMissingKeys]_vars

(***************************************************************************)
(* Harness of perform_sensitivity_analysis: the arguments are drawn at the *)
(* start, the function is called once.                                     *)
(***************************************************************************)
SensBaseMetricSets ==
    {[average_delay |-> Frac(30, 1), throughput |-> Frac(1500, 1),
      co2_emissions |-> Frac(200, 1), average_speed |-> Frac(45, 1)],
     [average_delay |-> Frac(0, 1), throughput |-> Frac(0, 1),
      co2_emissions |-> Frac(0, 1), average_speed |-> Frac(0, 1),
      total_travel_time |-> Frac(0, 1)],
     [average_delay |-> Frac(30, 1), throughput |-> Frac(0, 1),
      co2_emissions |-> Frac(200, 1), average_speed |-> Frac(45, 1)],
     [average_delay |-> Frac(30, 1), throughput |-> Frac(1500, 1),
      average_speed |-> Frac(45, 1)]}

\* SIGNAL, timing, speed, Capacity, and two names without any of the four words
SensParameters ==
    {<<"S", "I", "G", "N", "A", "L">>,
     <<"t", "i", "m", "i", "n", "g">>,
     <<"s", "p", "e", "e", "d">>,
     <<"C", "a", "p", "a", "c", "i", "t", "y">>,
     <<"d", "e", "m", "a", "n", "d">>,
     <<"r", "a", "i", "n">>}

SensFactors == {Frac(0, 1), Frac(1, 2), Frac(1, 1), Frac(6, 5)}

\* one parameter with one or two factors, or two parameters with one factor each
SensVariations ==
    {<<[parameter |-> parameter, factors |-> <<factor>>]>> :
        parameter \in SensParameters, factor \in SensFactors}
    \cup {<<[parameter |-> parameter, factors |-> <<pair[1], pair[2]>>]>> :
            parameter \in SensParameters, pair \in SensFactors \X SensFactors}
    \cup {<<[parameter |-> pair[1], factors |-> <<factor>>],
            [parameter |-> pair[2], factors |-> <<factor>>]>> :
            pair \in {q \in SensParameters \X SensParameters : q[1] # q[2]},
            factor \in SensFactors}

InitSensitivity ==
    /\ sens_in \in [base_metrics : SensBaseMetricSets, numpy_floats : BOOLEAN,
                    parameter_variations : SensVariations]
    /\ sens_out = [done |-> FALSE]
    /\ OptimizerIdle
    /\ ScoreIdle
    /\ MetricsIdle
    /\ BestIdle
    /\ CompareIdle
    /\ AnalyzerIdle
    /\ SessionIdle

CallSensitivityAnalysis ==
    /\ ~sens_out.done
    /\ sens_in.parameter_variations # <<>>
    /\ LET returned == perform_sensitivity_analysis(sens_in.base_metrics,
                                                    sens_in.numpy_floats,
                                                    sens_in.parameter_variations)
       IN  /\ sens_out' = [done |-> TRUE, error |-> returned.error,
                           rows |-> returned.rows, varied |-> returned.varied,
                           base_metrics_before |-> sens_in.base_metrics]
           /\ sens_in' = [sens_in EXCEPT !.base_metrics = returned.base_metrics]
    /\ UNCHANGED <<policies_metrics, opt_call, score_in, score_out, simulation_data,
                   metrics_out, best_in, best_out, compare_in, compare_out, results,
                   stat_call,
                   session, run, report>>

NextSensitivity == CallSensitivityAnalysis

SpecSensitivity == InitSensitivity /\ [][NextSensitivity]_vars

(***************************************************************************)
(* Harness of calculate_composite_score: the arguments are drawn at the    *)
(* start, the call is the one step.                                        *)
(***************************************************************************)
\* metric values: below the assumed range, at its ends, inside it, above it
ScoreMetricValues ==
    [average_delay : {-50, 0, 120, 300, 450},
     throughput : {-100, 0, 1200, 2000, 5000},
     co2_emissions : {-20, 0, 450, 1000, 3000},
     average_speed : {-5, 0, 35, 60, 130}]

\* metric sets with any of the four keys missing
ScoreMetricSets ==
    {[key \in present |-> full[key]] :
        full \in ScoreMetricValues,
        present \in SUBSET {"average_delay", "throughput", "co2_emissions", "average_speed"}}

\* weights arguments: omitted; 1.0 on every metric; a negative weight;
\* one metric only; a key that is no sub-score; unequal weights summing to 1
WeightsArgs ==
    {[given |-> FALSE, weights |-> <<>>],
     [given |-> TRUE,
      weights |-> [average_delay |-> 100, throughput |-> 100,
                   co2_emissions |-> 100, average_speed |-> 100]],
     [given |-> TRUE,
      weights |-> [average_delay |-> -50, throughput |-> 50,
                   co2_emissions |-> 50, average_speed |-> 50]],
     [given |-> TRUE, weights |-> [average_delay |-> 100]],
     [given |-> TRUE, weights |-> [average_delay |-> 50, total_travel_time |-> 50]],
     [given |-> TRUE,
      weights |-> [average_delay |-> 40, throughput |-> 30,
                   co2_emissions |-> 20, average_speed |-> 10]]}

InitScore ==
    /\ score_in \in [metrics : ScoreMetricSets, weights_arg : WeightsArgs]
    /\ score_out = [done |-> FALSE]
    /\ OptimizerIdle
    /\ MetricsIdle
    /\ BestIdle
    /\ CompareIdle
    /\ AnalyzerIdle
    /\ SensitivityIdle
    /\ SessionIdle

CallCompositeScore ==
    /\ ~score_out.done
    /\ score_in.metrics \in ScoreMetricSets
    /\ score_out' = [done |-> TRUE,
                     score |-> calculate_composite_score(score_in.metrics,
                                                         score_in.weights_arg)]
    /\ UNCHANGED <<policies_metrics, opt_call, score_in, simulation_data, metrics_out,
                 best_in, best_out, compare_in, compare_out, results, stat_call, sens_in, sens_out,
                   session, run, report>>

NextScore == CallCompositeScore

SpecScore == InitScore /\ [][NextScore]_vars

(***************************************************************************)
(* Harness of calculate_metrics                                            *)
(***************************************************************************)
\* vehicle records, every numeric field non-negative: a completed and an
\* uncompleted vehicle with every field, a vehicle of all zeros, two with no
\* emissions (one with a distance to estimate them from), and two that
\* carry no completion flag
VehicleRecords ==
    {[delay |-> 30, speed |-> 10, travel_time |-> 1200, distance |-> 1000,
      co2_emissions |-> 100, completed |-> TRUE],
     [delay |-> 60, speed |-> 5, travel_time |-> 2400, distance |-> 2000,
      co2_emissions |-> 250, completed |-> FALSE],
     [delay |-> 0, speed |-> 0, travel_time |-> 0, distance |-> 0,
      co2_emissions |-> 0, completed |-> TRUE],
     [distance |-> 1500, completed |-> TRUE],
     [completed |-> FALSE],
     [delay |-> 45, speed |-> 8, travel_time |-> 900, distance |-> 1200,
      co2_emissions |-> 150],
     [delay |-> 20]}

VehicleBatches == UNION {[1..n -> VehicleRecords] : n \in 0..MaxVehicles}

\* simulation_data: 'vehicles' absent or a batch, 'simulation_time' absent or
\* a positive number of seconds
SimulationInputs ==
    LET times == {[has_time |-> FALSE, simulation_time |-> 0],
                  [has_time |-> TRUE, simulation_time |-> 1800],
                  [has_time |-> TRUE, simulation_time |-> 7200]}
    IN  {[has_vehicles |-> FALSE, vehicles |-> <<>>,
          has_time |-> t.has_time, simulation_time |-> t.simulation_time] : t \in times}
        \cup
        {[has_vehicles |-> TRUE, vehicles |-> b,
          has_time |-> t.has_time, simulation_time |-> t.simulation_time] :
            b \in VehicleBatches, t \in times}

InitMetrics ==
    /\ simulation_data \in SimulationInputs
    /\ metrics_out = [done |-> FALSE]
    /\ OptimizerIdle
    /\ ScoreIdle
    /\ BestIdle
    /\ CompareIdle
    /\ AnalyzerIdle
    /\ SensitivityIdle
    /\ SessionIdle

CallCalculateMetrics ==
    /\ ~metrics_out.done
    /\ simulation_data \in SimulationInputs
    /\ LET returned == calculate_metrics(simulation_data)
       IN  metrics_out' = [done |-> TRUE, error |-> returned.error,
                           metrics |-> returned.metrics]
    /\ UNCHANGED <<policies_metrics, opt_call, score_in, score_out, simulation_data,
                 best_in, best_out, compare_in, compare_out, results, stat_call, sens_in, sens_out,
                   session, run, report>>

NextMetrics == CallCalculateMetrics

SpecMetrics == InitMetrics /\ [][NextMetrics]_vars

(***************************************************************************)
(* All the engines side by side: one engine is exercised per behaviour,    *)
(* the others stay at rest, as each engine object of the app keeps no      *)
(* state of its own between calls.                                         *)
(***************************************************************************)
InitEngines ==
    \/ InitOptimizer
    \/ InitBest
    \/ InitCompare
    \/ InitAnalyzer
    \/ InitSensitivity
    \/ InitScore
    \/ InitMetrics

OptimizerAlone ==
    /\ ScoreIdle /\ MetricsIdle /\ BestIdle /\ CompareIdle /\ AnalyzerIdle
    /\ SensitivityIdle
    /\ NextOptimizer

BestAlone ==
    /\ ScoreIdle /\ MetricsIdle /\ OptimizerIdle /\ CompareIdle /\ AnalyzerIdle
    /\ SensitivityIdle
    /\ NextBest

CompareAlone ==
    /\ ScoreIdle /\ MetricsIdle /\ OptimizerIdle /\ BestIdle /\ AnalyzerIdle
    /\ SensitivityIdle
    /\ NextCompare

AnalyzerAlone ==
    /\ ScoreIdle /\ MetricsIdle /\ OptimizerIdle /\ BestIdle /\ CompareIdle
    /\ SensitivityIdle
    /\ NextAnalyzer

SensitivityAlone ==
    /\ ScoreIdle /\ MetricsIdle /\ OptimizerIdle /\ BestIdle /\ CompareIdle
    /\ AnalyzerIdle
    /\ NextSensitivity

ScoreAlone ==
    /\ MetricsIdle /\ OptimizerIdle /\ BestIdle /\ CompareIdle /\ AnalyzerIdle
    /\ SensitivityIdle
    /\ NextScore

MetricsAlone ==
    /\ ScoreIdle /\ OptimizerIdle /\ BestIdle /\ CompareIdle /\ AnalyzerIdle
    /\ SensitivityIdle
    /\ NextMetrics

NextEngines ==
    \/ OptimizerAlone
    \/ BestAlone
    \/ CompareAlone
    \/ AnalyzerAlone
    \/ SensitivityAlone
    \/ ScoreAlone
    \/ MetricsAlone

SpecEngines == InitEngines /\ [][NextEngines]_vars

(***************************************************************************)
(* app.py : the session.  st.session_state holds the generated policies,   *)
(* the published results table and the cached analyses; a simulation run   *)
(* builds its own table, entry after entry, and assigns it to the session  *)
(* after the loop.  The pages read the session's table.  A dict is a        *)
(* sequence of [name, ...] entries in insertion order.                     *)
(***************************************************************************)
\* f'Policy {policy_idx + 1}', the position being policy_idx + 1
default_policy_name(position) == <<"Policy 1", "Policy 2", "Policy 3">>[position]

\* policy.get('policy_name', f'Policy {policy_idx + 1}')
policy_name_of(policy, position) ==
    Get(policy, "policy_name", default_policy_name(position))

has_key(d, key) == \E i \in 1..Len(d) : d[i].name = key

\* results[policy_name] = {}: a name already in results keeps its place and
\* loses its scenarios
begin_policy(table, policy_name) ==
    IF has_key(table, policy_name)
    THEN [i \in 1..Len(table) |->
             IF table[i].name = policy_name
             THEN [name |-> policy_name, scenarios |-> <<>>] ELSE table[i]]
    ELSE Append(table, [name |-> policy_name, scenarios |-> <<>>])

\* scenarios[scenario_name] = entry
put_scenario(scenarios, entry) ==
    IF has_key(scenarios, entry.name)
    THEN [i \in 1..Len(scenarios) |->
             IF scenarios[i].name = entry.name THEN entry ELSE scenarios[i]]
    ELSE Append(scenarios, entry)

\* Mutant of write_entry: the policy's mapping is replaced by one that holds
\* the new entry only.
write_entry_alone(table, policy_name, entry) ==
    [i \in 1..Len(table) |->
        IF table[i].name = policy_name
        THEN [name |-> policy_name, scenarios |-> <<entry>>]
        ELSE table[i]]

\* results[policy_name][scenario_name] = {'metrics': ..., 'policy_config': ...,
\* 'scenario': ...}; the scenario object is the one its name stands for
write_entry(table, policy_name, entry) ==
    [i \in 1..Len(table) |->
        IF table[i].name = policy_name
        THEN [name |-> policy_name, scenarios |-> put_scenario(table[i].scenarios, entry)]
        ELSE table[i]]

\* Mutant of simulation_results_in_loop: the table under construction is
\* stored in the session after every entry.
simulation_results_in_loop_stored(simulation_results, local_results) == local_results

\* the loop body assigns nothing to st.session_state: the session's table
\* after an entry was written is the one before
simulation_results_in_loop(simulation_results, local_results) == simulation_results

\* np.mean(values); the model's metric values are even and a policy has one or
\* two scenarios, so the division is exact
mean(values) == SumSeq(values) \div Len(values)

\* avg_metrics of one policy: the mean over its scenarios of
\* s['metrics'].get(metric, 0), for the four objectives
avg_metrics(scenarios) ==
    [metric \in {"average_delay", "throughput", "co2_emissions", "average_speed"} |->
        mean(scenario_values(scenarios, metric))]

\* policies_metrics as the optimization page and the report page build it
RECURSIVE page_policies_metrics(_)
page_policies_metrics(table) ==
    IF table = <<>> THEN <<>>
    ELSE <<[name |-> Head(table).name, metrics |-> avg_metrics(Head(table).scenarios)]>>
         \o page_policies_metrics(Tail(table))

\* the p-values scipy computes for the session's tables
session_p_values ==
    [average_delay |-> Double(Frac(1, 200)), throughput |-> Double(Frac(3, 100)),
     co2_emissions |-> Double(Frac(1, 10)), average_speed |-> Double(Frac(1, 2))]

(***************************************************************************)
(* Harness of the session: policies were generated, then the user runs     *)
(* simulations, opens the optimization and statistics pages and generates  *)
(* reports in any order.                                                   *)
(***************************************************************************)
\* generated policies: two names; the same name twice; a policy named like
\* the default name of the unnamed policy after it
GeneratedPolicyLists ==
    {<<[policy_name |-> "A"], [policy_name |-> "B"]>>,
     <<[policy_name |-> "A"], [policy_name |-> "A"]>>,
     <<[policy_name |-> "Policy 2"], <<>>>>}

\* the multiselect of policies: indices in increasing order
PolicySelections(generated) ==
    {<<i>> : i \in 1..Len(generated)}
    \cup {pair \in (1..Len(generated)) \X (1..Len(generated)) : pair[1] < pair[2]}

ScenarioSelections == {<<"baseline">>, <<"baseline", "moderate">>}

\* metric sets calculate_metrics returns for a simulation
SessionMetricSets ==
    {[average_delay |-> 4, throughput |-> 20, co2_emissions |-> 2, average_speed |-> 8,
      total_travel_time |-> 40],
     [average_delay |-> 8, throughput |-> 10, co2_emissions |-> 4, average_speed |-> 6,
      total_travel_time |-> 60]}

InitSession ==
    /\ session \in [generated_policies : GeneratedPolicyLists, simulation_results : {<<>>},
                    pareto_front : {<<>>}, statistical_analysis : {<<>>}]
    /\ run = no_run("idle")
    /\ report = [generated |-> FALSE]
    /\ OptimizerIdle
    /\ ScoreIdle
    /\ MetricsIdle
    /\ BestIdle
    /\ CompareIdle
    /\ AnalyzerIdle
    /\ SensitivityIdle

EngineVars ==
    <<policies_metrics, opt_call, score_in, score_out, simulation_data, metrics_out,
      best_in, best_out, compare_in, compare_out, results, stat_call, sens_in, sens_out>>

Running == run.state = "running"

LoopFinished == run.policy_pos > Len(run.policy_indices)

\* the policy the loop is at
current_policy_name ==
    LET policy_idx == run.policy_indices[run.policy_pos]
    IN  policy_name_of(session.generated_policies[policy_idx], policy_idx)

\* the Run Simulation button with a non-empty selection: results = {}
StartRun ==
    /\ ~Running
    /\ \E policy_indices \in PolicySelections(session.generated_policies),
          scenario_names \in ScenarioSelections :
           run' = [state |-> "running", policy_indices |-> policy_indices,
                   scenario_names |-> scenario_names, policy_pos |-> 1,
                   scenario_pos |-> 0, results |-> <<>>]
    /\ report' = [generated |-> FALSE]
    /\ UNCHANGED session
    /\ UNCHANGED EngineVars

\* the head of the outer loop: results[policy_name] = {}
BeginPolicy ==
    /\ Running
    /\ ~LoopFinished
    /\ run.scenario_pos = 0
    /\ run' = [run EXCEPT !.results = begin_policy(run.results, current_policy_name),
                          !.scenario_pos = 1]
    /\ UNCHANGED <<session, report>>
    /\ UNCHANGED EngineVars

\* one pass of the inner loop: the simulation, calculate_metrics, the entry
SimulateScenario ==
    /\ Running
    /\ ~LoopFinished
    /\ run.scenario_pos >= 1
    /\ \E metrics \in SessionMetricSets :
           LET entry == [name |-> run.scenario_names[run.scenario_pos],
                         metrics |-> metrics,
                         policy_config |-> run.policy_indices[run.policy_pos]]
               written == write_entry(run.results, current_policy_name, entry)
               last == run.scenario_pos = Len(run.scenario_names)
           IN  /\ run' = [run EXCEPT !.results = written,
                                     !.policy_pos = IF last THEN @ + 1 ELSE @,
                                     !.scenario_pos = IF last THEN 0 ELSE @ + 1]
               /\ session' = [session EXCEPT !.simulation_results =
                                 simulation_results_in_loop(@, written)]
    /\ UNCHANGED report
    /\ UNCHANGED EngineVars

\* run_simulation or calculate_metrics raises, or the script run is stopped:
\* the function is left without reaching the assignment to the session
RunFails ==
    /\ Running
    /\ ~LoopFinished
    /\ run.scenario_pos >= 1
    /\ run' = no_run("failed")
    /\ UNCHANGED <<session, report>>
    /\ UNCHANGED EngineVars

\* st.session_state.simulation_results = results
PublishResults ==
    /\ Running
    /\ LoopFinished
    /\ session' = [session EXCEPT !.simulation_results = run.results]
    /\ run' = no_run("completed")
    /\ UNCHANGED report
    /\ UNCHANGED EngineVars

\* show_optimization_page: the frontier of the averaged metrics is stored
OpenOptimizationPage ==
    /\ ~Running
    /\ session.simulation_results # <<>>
    /\ LET pareto_front ==
               calculate_pareto_frontier(page_policies_metrics(session.simulation_results))
       IN  session' = [session EXCEPT !.pareto_front = pareto_front]
    /\ report' = [generated |-> FALSE]
    /\ UNCHANGED run
    /\ UNCHANGED EngineVars

\* show_statistical_analysis_page: the ANOVA of the table is stored
OpenStatisticsPage ==
    /\ ~Running
    /\ session.simulation_results # <<>>
    /\ LET anova_results ==
               perform_anova(session.simulation_results, session_p_values).anova_results
       IN  session' = [session EXCEPT !.statistical_analysis = [anova |-> anova_results]]
    /\ report' = [generated |-> FALSE]
    /\ UNCHANGED run
    /\ UNCHANGED EngineVars

\* the Generate Complete Report button: what goes to generate_statistical_report
\* and to generate_optimization_report
GenerateReport ==
    /\ ~Running
    /\ session.simulation_results # <<>>
    /\ \E include_stats \in BOOLEAN, include_optimization \in BOOLEAN :
           report' =
               [generated |-> TRUE,
                results |-> session.simulation_results,
                stats |->
                    IF include_stats /\ "anova" \in DOMAIN session.statistical_analysis
                    THEN [given |-> TRUE, anova |-> session.statistical_analysis.anova]
                    ELSE [given |-> FALSE, anova |-> <<>>],
                optimization |->
                    IF include_optimization /\ session.pareto_front # <<>>
                    THEN [given |-> TRUE,
                          policies_metrics |->
                              page_policies_metrics(session.simulation_results)]
                    ELSE [given |-> FALSE, policies_metrics |-> <<>>]]
    /\ UNCHANGED <<session, run>>
    /\ UNCHANGED EngineVars

NextSession ==
    \/ StartRun
    \/ BeginPolicy
    \/ SimulateScenario
    \/ RunFails
    \/ PublishResults
    \/ OpenOptimizationPage
    \/ OpenStatisticsPage
    \/ GenerateReport

SpecSession == InitSession /\ [][NextSession]_vars

(***************************************************************************)
(* Properties of the optimizer                                             *)
(***************************************************************************)
\* Dominance as the specification words it, on two metric sets: with
\* throughput and average_speed negated, every component of A is <= that of
\* B and at least one is strictly less.
SpecVector(m) ==
    <<m["average_delay"], m["co2_emissions"], -m["throughput"], -m["average_speed"]>>

SpecDominates(A, B) ==
    /\ \A k \in 1..4 : SpecVector(A)[k] <= SpecVector(B)[k]
    /\ \E k \in 1..4 : SpecVector(A)[k] < SpecVector(B)[k]

\* the policies (positions in the table) that dominate policy i
Dominators(i) ==
    {j \in 1..Len(policies_metrics) :
        j # i /\ SpecDominates(policies_metrics[j].metrics, policies_metrics[i].metrics)}

DominanceCount(i) == Cardinality(Dominators(i))

\* the dominance counts of policies 1..n of the table, as a sequence
RECURSIVE DominanceCountsUpTo(_)
DominanceCountsUpTo(n) ==
    IF n = 0 THEN <<>> ELSE Append(DominanceCountsUpTo(n - 1), DominanceCount(n))

DominanceCounts == DominanceCountsUpTo(Len(policies_metrics))

ParetoCalled == opt_call.op = "calculate_pareto_frontier"
RankCalled == opt_call.op = "rank_policies_by_dominance"
HypervolumeCalled == opt_call.op = "calculate_hypervolume"

\* C1: calculate_pareto_frontier returns exactly the policies of the table
\* that no other policy dominates (each once): a policy is in the result if
\* and only if it has no dominator.
C1_ParetoIsNonDominatedSet ==
    ParetoCalled =>
        /\ \A i \in 1..Len(policies_metrics) :
              (policies_metrics[i].name \in Range(opt_call.result)) <=> (Dominators(i) = {})
        /\ Range(opt_call.result) \subseteq Range(policy_names(policies_metrics))
        /\ Cardinality(Range(opt_call.result)) = Len(opt_call.result)

\* C1 witness: a table of three policies of which some, not all, are dominated.
C1_Witness ==
    /\ ParetoCalled
    /\ Len(policies_metrics) = 3
    /\ Len(opt_call.result) = 2
    /\ \E i \in 1..3 : Dominators(i) # {}

\* C2: the dominance relation of the optimizer is irreflexive and asymmetric,
\* and two equal objective vectors do not dominate each other: checked on
\* the objective vectors of every pair of policies of a table whose frontier
\* is computed.
C2_DominanceIrreflexiveAsymmetric ==
    ParetoCalled =>
      \A i, j \in 1..Len(policies_metrics) :
        LET a == obj_values(policies_metrics[i].metrics)
            b == obj_values(policies_metrics[j].metrics)
        IN  /\ ~_dominates(a, a)
            /\ _dominates(a, b) => ~_dominates(b, a)
            /\ a = b => (~_dominates(a, b) /\ ~_dominates(b, a))

\* C2 witness: an analysed table with two policies of equal vectors and a
\* pair of which one dominates the other.
C2_Witness ==
    /\ ParetoCalled
    /\ \E i, j \in 1..Len(policies_metrics) :
          /\ i # j
          /\ policies_metrics[i].metrics = policies_metrics[j].metrics
    /\ \E i, j \in 1..Len(policies_metrics) :
          _dominates(obj_values(policies_metrics[i].metrics),
                    obj_values(policies_metrics[j].metrics))

\* C3: for a table of at least one policy the Pareto frontier returned is
\* not empty.
C3_ParetoNonEmpty ==
    (ParetoCalled /\ Len(policies_metrics) >= 1) => Len(opt_call.result) >= 1

\* C3 witness: the frontier of a single policy is that policy.
C3_Witness ==
    /\ ParetoCalled
    /\ Len(policies_metrics) = 1
    /\ opt_call.result = <<policies_metrics[1].name>>

\* the set of ranks rank_policies_by_dominance handed out
RanksUsed == {opt_call.result[policies_metrics[i].name] : i \in 1..Len(policies_metrics)}

\* the distinct dominance counts of the table
CountsPresent == Range(DominanceCounts)

\* C4 (as claimed): dense ranking, for k distinct dominance counts the ranks
\* used are exactly 1..k, a tie never makes a rank number be skipped.
C4_DenseRanking ==
    RankCalled => RanksUsed = 1..Cardinality(CountsPresent)

\* C4 (amended): competition ranking, the rank of a policy is 1 plus the
\* number of policies whose dominance count is strictly smaller; the best
\* rank is 1 and a tie of t policies makes the next t - 1 rank numbers be
\* skipped.
C4_CompetitionRanking ==
    RankCalled =>
        /\ DOMAIN opt_call.result = Range(policy_names(policies_metrics))
        /\ LET counts == DominanceCounts
           IN  \A i \in 1..Len(policies_metrics) :
                  opt_call.result[policies_metrics[i].name] =
                      1 + Cardinality({j \in 1..Len(policies_metrics) :
                                          counts[j] < counts[i]})
        /\ Len(policies_metrics) >= 1 => 1 \in RanksUsed

\* C4 witness: two policies tie on rank 1, the third has rank 3 and no policy
\* has rank 2.
C4_Witness ==
    /\ RankCalled
    /\ Len(policies_metrics) = 3
    /\ RanksUsed = {1, 3}

\* C5: two policies dominated by the same number of policies receive the same
\* rank, and a policy dominated by strictly fewer policies than another
\* receives a strictly smaller rank.
C5_RankOrderFollowsCounts ==
    RankCalled =>
        LET counts == DominanceCounts
        IN  \A i, j \in 1..Len(policies_metrics) :
                LET ri == opt_call.result[policies_metrics[i].name]
                    rj == opt_call.result[policies_metrics[j].name]
                IN  /\ counts[i] = counts[j] => ri = rj
                    /\ counts[i] < counts[j] => ri < rj

\* C5 witness: a ranked table with a tie on the dominance count and a policy
\* with a larger count.
C5_Witness ==
    /\ RankCalled
    /\ LET counts == DominanceCounts
       IN  \E i, j, k \in 1..Len(policies_metrics) :
              /\ i # j
              /\ counts[i] = counts[j]
              /\ counts[j] < counts[k]

\* C6: for a non-empty table and any reference_point (supplied or omitted)
\* calculate_hypervolume returns the number of Pareto-frontier policies
\* divided by the number of policies, a value in (0, 1].
C6_HypervolumeIsFrontierShare ==
    (HypervolumeCalled /\ Len(policies_metrics) >= 1) =>
        /\ opt_call.result.error = ""
        /\ opt_call.result.num * Len(policies_metrics) =
              Cardinality({i \in 1..Len(policies_metrics) : Dominators(i) = {}})
                  * opt_call.result.den
        /\ 0 < opt_call.result.num
        /\ opt_call.result.num <= opt_call.result.den

\* C6 witness: a call with a supplied reference point on a table of which a
\* part is on the frontier.
C6_Witness ==
    /\ HypervolumeCalled
    /\ opt_call.reference_point.given
    /\ Len(policies_metrics) = 3
    /\ opt_call.result.error = ""
    /\ opt_call.result.num = 2

(***************************************************************************)
(* Properties of the evaluator                                             *)
(***************************************************************************)
\* C7: with the default weights the composite score lies in [0, 100]
\* (0..10000 hundredths) for every metrics input, out-of-range values and
\* missing keys included.
C7_ScoreBoundedDefaultWeights ==
    (score_out.done /\ ~score_in.weights_arg.given) =>
        (0 <= score_out.score /\ score_out.score <= 10000)

\* C7 witness: a score computed with the default weights from a metric set
\* with a delay above 300 s, a negative throughput and no emissions key.
C7_Witness ==
    /\ score_out.done
    /\ ~score_in.weights_arg.given
    /\ DOMAIN score_in.metrics = {"average_delay", "throughput", "average_speed"}
    /\ score_in.metrics["average_delay"] > 300
    /\ score_in.metrics["throughput"] < 0
    /\ score_in.metrics["average_speed"] > 60
    /\ score_out.score = 3750

\* C8 (as claimed): the composite score lies in [0, 100] for every metrics
\* input and every weights mapping the caller supplies.
C8_ScoreBoundedAnyWeights ==
    score_out.done => (0 <= score_out.score /\ score_out.score <= 10000)

MetricKeys ==
    {"average_delay", "throughput", "co2_emissions", "average_speed", "total_travel_time"}

\* the batch calculate_metrics works on: 'vehicles', or [] when it is absent
BatchOf(data) == IF data.has_vehicles THEN data.vehicles ELSE <<>>

\* C9 (as claimed): for every batch of non-negative field values
\* calculate_metrics returns the five metric keys, each with a non-negative
\* value, and for an empty or absent batch every value is 0; no error is
\* raised.
C9_MetricsTotalNonNegative ==
    metrics_out.done =>
        /\ metrics_out.error = ""
        /\ DOMAIN metrics_out.metrics = MetricKeys
        /\ \A key \in MetricKeys :
              metrics_out.metrics[key].num >= 0 /\ metrics_out.metrics[key].den > 0
        /\ Len(BatchOf(simulation_data)) = 0 =>
              \A key \in MetricKeys : metrics_out.metrics[key].num = 0

\* the records of the batch whose completion flag is true
CompletedRecords(data) ==
    {i \in 1..Len(BatchOf(data)) :
        /\ "completed" \in DOMAIN BatchOf(data)[i]
        /\ BatchOf(data)[i]["completed"]}

\* (number of completed records / duration) x 3600 with the duration 3600
\* when none is supplied
ClaimedThroughput(data) ==
    [num |-> Cardinality(CompletedRecords(data)) * 3600,
     den |-> IF data.has_time THEN data.simulation_time ELSE 3600]

\* C10 (as claimed): for every non-empty batch calculate_metrics sets
\* throughput to (records whose completion flag is true / duration) x 3600,
\* the duration being 3600 s when the caller supplies none.
C10_ThroughputOfCompleted ==
    (metrics_out.done /\ Len(BatchOf(simulation_data)) > 0) =>
        /\ metrics_out.error = ""
        /\ metrics_out.metrics["throughput"].num * ClaimedThroughput(simulation_data).den
              = ClaimedThroughput(simulation_data).num * metrics_out.metrics["throughput"].den

\* What does hold of the code: whenever every record of a non-empty batch
\* carries a completion flag, the call returns the five keys, non-negative,
\* with the throughput of C10.
MetricsOfFlaggedBatches ==
    (/\ metrics_out.done
     /\ Len(BatchOf(simulation_data)) > 0
     /\ \A i \in 1..Len(BatchOf(simulation_data)) :
           "completed" \in DOMAIN BatchOf(simulation_data)[i]) =>
        /\ metrics_out.error = ""
        /\ DOMAIN metrics_out.metrics = MetricKeys
        /\ \A key \in MetricKeys : metrics_out.metrics[key].num >= 0
        /\ metrics_out.metrics["throughput"].num * ClaimedThroughput(simulation_data).den
              = ClaimedThroughput(simulation_data).num * metrics_out.metrics["throughput"].den


(***************************************************************************)
(* Properties of identify_best_policy                                      *)
(***************************************************************************)
BestCalled == best_out.done

BestNames == {best_in[i].name : i \in 1..Len(best_in)}

\* the policies of results_dict that carry the metric
AllCarry(metric_key) ==
    \A i \in 1..Len(best_in) : metric_key \in DOMAIN best_in[i].metrics

\* the position in results_dict of the policy returned
ReturnedAt == CHOOSE i \in 1..Len(best_in) : best_in[i].name = best_out.name

\* C11: identify_best_policy returns None exactly when results_dict is empty, and
\* for a non-empty results_dict and a supported objective it returns, without
\* raising, the name of one of the policies of results_dict.
C11_NoneOnlyWhenEmpty ==
    BestCalled =>
        /\ best_out.is_none <=> (best_in = <<>>)
        /\ (best_in # <<>> /\ best_out.objective \in supported_objectives) =>
               /\ best_out.error = "none"
               /\ ~best_out.is_none
               /\ best_out.name \in BestNames

C11_Witness ==
    /\ BestCalled
    /\ Len(best_in) = 2
    /\ "throughput" \notin DOMAIN best_in[1].metrics
    /\ "throughput" \notin DOMAIN best_in[2].metrics
    /\ best_out.objective = "throughput"
    /\ ~best_out.is_none
    /\ best_out.name = 1

\* C12: when every policy carries the metric of the objective, objective 'delay'
\* returns a policy of least average_delay and 'emissions' one of least
\* co2_emissions, 'throughput' returns a policy of greatest throughput and 'speed'
\* one of greatest average_speed.
C12_BestIsExtreme ==
    (BestCalled /\ best_in # <<>>) =>
        /\ (best_out.objective = "delay" /\ AllCarry("average_delay")) =>
               \A i \in 1..Len(best_in) :
                   best_in[ReturnedAt].metrics.average_delay
                       <= best_in[i].metrics.average_delay
        /\ (best_out.objective = "emissions" /\ AllCarry("co2_emissions")) =>
               \A i \in 1..Len(best_in) :
                   best_in[ReturnedAt].metrics.co2_emissions
                       <= best_in[i].metrics.co2_emissions
        /\ (best_out.objective = "throughput" /\ AllCarry("throughput")) =>
               \A i \in 1..Len(best_in) :
                   best_in[ReturnedAt].metrics.throughput
                       >= best_in[i].metrics.throughput
        /\ (best_out.objective = "speed" /\ AllCarry("average_speed")) =>
               \A i \in 1..Len(best_in) :
                   best_in[ReturnedAt].metrics.average_speed
                       >= best_in[i].metrics.average_speed

\* policy 1 has delay 10, policy 2 has delay 5: policy 2 is returned
C12_Witness ==
    /\ BestCalled
    /\ Len(best_in) = 2
    /\ AllCarry("average_delay")
    /\ best_in[1].metrics.average_delay = 10
    /\ best_in[2].metrics.average_delay = 5
    /\ best_out.objective = "delay"
    /\ best_out.name = 2

UnsupportedCall ==
    /\ BestCalled
    /\ best_in # <<>>
    /\ best_out.objective \notin supported_objectives

DelayBelow(i, j) ==
    /\ "average_delay" \in DOMAIN best_in[i].metrics
    /\ \/ "average_delay" \notin DOMAIN best_in[j].metrics
       \/ best_in[i].metrics.average_delay < best_in[j].metrics.average_delay

CompareCalled == compare_out.done

\* every key of the baseline has a policy value
PolicyCoversBaseline ==
    DOMAIN compare_in.baseline_metrics \subseteq DOMAIN compare_in.policy_metrics

\* C14: for every metric key of the baseline (the policy having a value for it)
\* absolute_change is policy - baseline; percent_change is
\* absolute_change / baseline * 100 on a non-zero baseline, 0 when both values
\* are 0, 100 when only the baseline is 0; no call fails with a division by zero.
C14_ChangeArithmetic ==
    CompareCalled =>
        /\ compare_out.error # "ZeroDivisionError"
        /\ PolicyCoversBaseline =>
               /\ compare_out.error = "none"
               /\ DOMAIN compare_out.comparison = DOMAIN compare_in.baseline_metrics
               /\ \A key \in DOMAIN compare_in.baseline_metrics :
                      LET b == compare_in.baseline_metrics[key]
                          p == compare_in.policy_metrics[key]
                          entry == compare_out.comparison[key]
                      IN  /\ entry.baseline = b
                          /\ entry.policy = p
                          /\ entry.absolute_change = p - b
                          /\ entry.percent_change.den > 0
                          /\ b # 0 => entry.percent_change.num * b
                                          = (p - b) * 100 * entry.percent_change.den
                          /\ (b = 0 /\ p = 0) => entry.percent_change.num = 0
                          /\ (b = 0 /\ p # 0) =>
                                 entry.percent_change = [num |-> 100, den |-> 1]

C14_Witness ==
    /\ CompareCalled
    /\ compare_in.baseline_metrics = [average_delay |-> 20, throughput |-> 0]
    /\ compare_in.policy_metrics = [average_delay |-> 50, throughput |-> 20]
    /\ compare_out.comparison.average_delay.percent_change = [num |-> 150, den |-> 1]
    /\ compare_out.comparison.throughput.percent_change = [num |-> 100, den |-> 1]

\* C15: comparing a metric set with itself gives, for every key, absolute_change
\* 0, percent_change 0 and is_improvement false.
C15_SelfComparisonIsNeutral ==
    (CompareCalled /\ compare_in.baseline_metrics = compare_in.policy_metrics) =>
        /\ compare_out.error = "none"
        /\ DOMAIN compare_out.comparison = DOMAIN compare_in.baseline_metrics
        /\ \A key \in DOMAIN compare_in.baseline_metrics :
               /\ compare_out.comparison[key].absolute_change = 0
               /\ compare_out.comparison[key].percent_change.num = 0
               /\ ~compare_out.comparison[key].is_improvement

C15_Witness ==
    /\ CompareCalled
    /\ compare_in.baseline_metrics =
           [average_delay |-> 20, throughput |-> 50, queue_length |-> 0]
    /\ compare_in.policy_metrics = compare_in.baseline_metrics
    /\ DOMAIN compare_out.comparison = CompareKeys
    /\ ~compare_out.comparison.average_delay.is_improvement
    /\ ~compare_out.comparison.throughput.is_improvement

(***************************************************************************)
(* Properties of the statistical analyzer                                  *)
(***************************************************************************)
AnovaCalled == stat_call.op = "perform_anova"

FewGroups == Len(results) < 2

\* C16 as the specification states it: perform_anova called with fewer than
\* two policy groups fails with an error.
C16_FewGroupsFail ==
    (AnovaCalled /\ FewGroups) => stat_call.error # "none"

\* C16: perform_anova called with fewer than two policy groups raises nothing
\* and returns an empty mapping; a metric has an entry exactly when there are at
\* least two groups and every group has at least one scenario.
C16_FewGroupsGiveNoEntry ==
    AnovaCalled =>
        /\ stat_call.error = "none"
        /\ FewGroups => DOMAIN stat_call.result = {}
        /\ \A metric \in Range(metrics_list) :
               metric \in DOMAIN stat_call.result
                   <=> /\ Len(results) >= 2
                       /\ \A i \in 1..Len(results) : Len(results[i].scenarios) >= 1

C16_Witness ==
    /\ AnovaCalled
    /\ Len(results) = 1
    /\ Len(results[1].scenarios) = 2
    /\ stat_call.error = "none"
    /\ DOMAIN stat_call.result = {}

(***************************************************************************)
(* Properties of the calls on tables that lack metric keys                 *)
(***************************************************************************)
\* a policy of the optimizer's table lacks one of the four objectives
PolicyLacksObjective ==
    \E i \in 1..Len(policies_metrics) :
        \E k \in 1..Len(objectives) : objectives[k] \notin DOMAIN policies_metrics[i].metrics

\* a scenario of results lacks one of the metrics perform_anova tests
ScenarioLacksMetric ==
    \E i \in 1..Len(results) : \E j \in 1..Len(results[i].scenarios) :
        \E k \in 1..Len(metrics_list) :
            metrics_list[k] \notin DOMAIN results[i].scenarios[j].metrics

\* C17 as the specification states it: when a required metric key is missing,
\* calculate_pareto_frontier, rank_policies_by_dominance and perform_anova raise
\* an error: no such call returns a value.
C17_MissingKeyFails ==
    /\ PolicyLacksObjective => ~(ParetoCalled \/ RankCalled)
    /\ (AnovaCalled /\ ScenarioLacksMetric) => stat_call.error # "none"

\* the metric set with 0 for every key of keys it lacks
ZeroFilled(metrics, keys) ==
    [key \in DOMAIN metrics \cup Range(keys) |-> Get(metrics, key, 0)]

ZeroFilledPolicies ==
    [i \in 1..Len(policies_metrics) |->
        [name |-> policies_metrics[i].name,
         metrics |-> ZeroFilled(policies_metrics[i].metrics, objectives)]]

ZeroFilledResults ==
    [i \in 1..Len(results) |->
        [name |-> results[i].name,
         scenarios |->
             [j \in 1..Len(results[i].scenarios) |->
                 [name |-> results[i].scenarios[j].name,
                  metrics |-> ZeroFilled(results[i].scenarios[j].metrics, metrics_list)]]]]

\* C17: when a metric key is missing, calculate_pareto_frontier,
\* rank_policies_by_dominance and perform_anova raise nothing and compute with 0
\* in its place: each returns what it returns on the table in which every
\* missing key is present with the value 0.
C17_MissingKeyCountsAsZero ==
    /\ ParetoCalled =>
           opt_call.result = calculate_pareto_frontier(ZeroFilledPolicies)
    /\ RankCalled =>
           opt_call.result = rank_policies_by_dominance(ZeroFilledPolicies)
    /\ AnovaCalled =>
           /\ stat_call.error = "none"
           /\ stat_call.result =
                  perform_anova(ZeroFilledResults, stat_call.p_oracle).anova_results

\* a policy without average_delay dominates the one that has every key at 1, and
\* a scenario without throughput enters the test as a throughput of 0
C17_Witness ==
    \/ /\ ParetoCalled
       /\ Len(policies_metrics) = 2
       /\ DOMAIN policies_metrics[1].metrics = Range(objectives)
       /\ policies_metrics[1].metrics.average_delay = 1
       /\ "average_delay" \notin DOMAIN policies_metrics[2].metrics
       /\ opt_call.result = <<2>>
    \/ /\ AnovaCalled
       /\ ScenarioLacksMetric
       /\ "throughput" \in DOMAIN stat_call.result
       /\ stat_call.result.throughput.f_statistic.kind = "number"

(***************************************************************************)
(* Properties of the entries of perform_anova                              *)
(***************************************************************************)
NotSignificant == "No significant difference between policies (p >= 0.05)"

\* the tier the thresholds 0.001, 0.01 and 0.05 give a p-value
TierOf(p_value) ==
    IF DoubleLess(p_value, Double(Frac(1, 1000)))
    THEN "Highly significant difference between policies (p < 0.001)"
    ELSE IF DoubleLess(p_value, Double(Frac(1, 100)))
    THEN "Very significant difference between policies (p < 0.01)"
    ELSE IF DoubleLess(p_value, Double(Frac(5, 100)))
    THEN "Significant difference between policies (p < 0.05)"
    ELSE NotSignificant

\* C18: for every entry of perform_anova, significant is true exactly when
\* p_value < 0.05; the interpretation is 'highly significant' for p < 0.001,
\* 'very significant' for 0.001 <= p < 0.01, 'significant' for 0.01 <= p < 0.05
\* and 'not significant' otherwise; so significant holds exactly when the
\* interpretation is not 'not significant'.
C18_SignificantBelowFivePercent ==
    AnovaCalled =>
        \A metric \in DOMAIN stat_call.result :
            LET entry == stat_call.result[metric]
            IN  /\ entry.significant <=> DoubleLess(entry.p_value, Double(Frac(5, 100)))
                /\ entry.interpretation = TierOf(entry.p_value)
                /\ entry.significant <=> entry.interpretation # NotSignificant

\* the p-values from the double 0.05 up to, and without, the double 1 - 0.95
InRoundingGap(p_value) ==
    /\ ~DoubleLess(p_value, Double(Frac(5, 100)))
    /\ DoubleLess(p_value, one_minus_confidence_level)

\* What holds of the code: the interpretation follows the tiers for every
\* p-value, and the flag agrees with it for every p-value outside the gap
\* between 0.05 and 1 - 0.95; inside the gap the flag is true and the
\* interpretation is 'not significant'.
SignificantOutsideRoundingGap ==
    AnovaCalled =>
        \A metric \in DOMAIN stat_call.result :
            LET entry == stat_call.result[metric]
            IN  /\ entry.interpretation = TierOf(entry.p_value)
                /\ ~InRoundingGap(entry.p_value) =>
                       /\ entry.significant
                              <=> DoubleLess(entry.p_value, Double(Frac(5, 100)))
                       /\ entry.significant <=> entry.interpretation # NotSignificant
                /\ InRoundingGap(entry.p_value) =>
                       entry.significant /\ entry.interpretation = NotSignificant

(***************************************************************************)
(* Properties of calculate_confidence_intervals                            *)
(***************************************************************************)
IntervalsCalled == stat_call.op = "calculate_confidence_intervals"

\* every metric key of the model's metric sets
StatMetricKeys == UNION {DOMAIN metrics : metrics \in StatMetricSets}

\* the number of scenarios of policy i that carry the metric
SamplesOf(i, metric) ==
    Cardinality({j \in 1..Len(results[i].scenarios) :
                    metric \in DOMAIN results[i].scenarios[j].metrics})

\* C19: calculate_confidence_intervals returns an entry for a (policy, metric)
\* pair if and only if the policy has at least two scenario samples of the
\* metric; a pair with exactly one sample is left out.
C19_IntervalNeedsTwoSamples ==
    IntervalsCalled =>
        /\ Len(stat_call.result) = Len(results)
        /\ \A i \in 1..Len(results) :
               /\ stat_call.result[i].name = results[i].name
               /\ \A metric \in StatMetricKeys :
                      metric \in DOMAIN stat_call.result[i].intervals
                          <=> SamplesOf(i, metric) >= 2

\* a policy with two samples of average_delay and one of throughput
C19_Witness ==
    /\ IntervalsCalled
    /\ Len(results) >= 1
    /\ SamplesOf(1, "average_delay") = 2
    /\ SamplesOf(1, "throughput") = 1
    /\ "average_delay" \in DOMAIN stat_call.result[1].intervals
    /\ stat_call.result[1].intervals.average_delay.mean = [num |-> 9, den |-> 2]
    /\ "throughput" \notin DOMAIN stat_call.result[1].intervals

(***************************************************************************)
(* Properties of calculate_correlation_matrix                              *)
(***************************************************************************)
CorrelationCalled == stat_call.op = "calculate_correlation_matrix"

\* the number of pooled samples, over every policy and scenario, that carry the key
PooledSamplesOf(metric) ==
    LET counts == [i \in 1..Len(results) |-> SamplesOf(i, metric)]
    IN  SumSeq(counts)

\* C20 as the specification states it: a metric key is a row or a column of the
\* correlation matrix only if at least two pooled samples contain it.
C20_KeyNeedsTwoSamples ==
    CorrelationCalled =>
        \A metric \in stat_call.result.index \cup stat_call.result.columns :
            PooledSamplesOf(metric) >= 2

\* C20: a metric key is a row and a column of the correlation matrix if and
\* only if at least one pooled sample contains it; a key that fewer than two
\* samples contain stays in the matrix, where its coefficients, computed from
\* fewer than two observations, are NaN.
C20_KeyOfAnySampleIsInMatrix ==
    CorrelationCalled =>
        /\ stat_call.result.index = stat_call.result.columns
        /\ \A metric \in StatMetricKeys :
               metric \in stat_call.result.index <=> PooledSamplesOf(metric) >= 1
        /\ \A metric \in stat_call.result.index :
               stat_call.result.observations[<<metric, metric>>] = PooledSamplesOf(metric)

\* throughput is in one pooled sample of two, and is a row of the matrix
C20_Witness ==
    /\ CorrelationCalled
    /\ PooledSamplesOf("average_delay") = 2
    /\ PooledSamplesOf("throughput") = 1
    /\ "throughput" \in stat_call.result.index
    /\ stat_call.result.observations[<<"throughput", "throughput">>] = 1

(***************************************************************************)
(* Properties of perform_sensitivity_analysis                              *)
(***************************************************************************)
SensitivityCalled == sens_out.done

\* the parameter names of the model that contain none of signal, timing, speed,
\* capacity in any case
UnmatchedParameters == {<<"d", "e", "m", "a", "n", "d">>, <<"r", "a", "i", "n">>}

\* every parameter of the call is an unmatched one
OnlyUnmatchedParameters ==
    \A i \in 1..Len(sens_in.parameter_variations) :
        sens_in.parameter_variations[i].parameter \in UnmatchedParameters

ChangeKeys == {"average_delay", "throughput", "co2_emissions"}

\* every row varies nothing: the varied metrics are the base metrics and the
\* three changes are 0
RowsAreNoOps ==
    /\ sens_out.error = "none"
    /\ Len(sens_out.rows) = Len(variation_pairs(sens_in.parameter_variations))
    /\ \A i \in 1..Len(sens_out.rows) :
           /\ sens_out.varied[i] = sens_out.base_metrics_before
           /\ sens_out.rows[i].delay_change = Double(Frac(0, 1))
           /\ sens_out.rows[i].throughput_change = Double(Frac(0, 1))
           /\ sens_out.rows[i].emissions_change = Double(Frac(0, 1))

\* C21: for every base_metrics and every parameter whose name contains none of
\* signal, timing, speed, capacity, the parameter is a no-op for every factor:
\* the varied metrics equal the base metrics and the delay, throughput and
\* emissions changes recorded are all 0.
C21_UnmatchedParameterIsNoOp ==
    (SensitivityCalled /\ OnlyUnmatchedParameters) => RowsAreNoOps

\* What holds of the code: the unmatched parameter is a no-op when base_metrics
\* has the three keys with non-zero values; with a zero value the call raises
\* ZeroDivisionError or, on numpy floats, records NaN, and without one of the
\* keys it raises KeyError.
UnmatchedParameterOnNonZeroBase ==
    (SensitivityCalled /\ OnlyUnmatchedParameters) =>
        LET base == sens_out.base_metrics_before
        IN  IF ~(ChangeKeys \subseteq DOMAIN base)
            THEN sens_out.error = "KeyError"
            ELSE IF \A key \in ChangeKeys : base[key].num # 0
            THEN RowsAreNoOps
            ELSE IF sens_in.numpy_floats
            THEN /\ sens_out.error = "none"
                 /\ \A i \in 1..Len(sens_out.rows) :
                        /\ sens_out.varied[i] = base
                        /\ sens_out.rows[i].delay_change.nan <=> base.average_delay.num = 0
                        /\ sens_out.rows[i].throughput_change.nan <=> base.throughput.num = 0
            ELSE sens_out.error = "ZeroDivisionError"

(***************************************************************************)
(* Properties of the engines taken together                                *)
(***************************************************************************)
OptimizerCallStep == opt_call.op = "none" /\ opt_call'.op # "none"

ScoreCallStep == ~score_out.done /\ score_out'.done

MetricsCallStep == ~metrics_out.done /\ metrics_out'.done

BestCallStep == ~best_out.done /\ best_out'.done

CompareCallStep == ~compare_out.done /\ compare_out'.done

AnalyzerCallStep == stat_call.op = "none" /\ stat_call'.op # "none"

SensitivityCallStep == ~sens_out.done /\ sens_out'.done

ArgumentsKept ==
    /\ OptimizerCallStep => policies_metrics' = policies_metrics
    /\ ScoreCallStep => score_in' = score_in
    /\ MetricsCallStep => simulation_data' = simulation_data
    /\ BestCallStep => best_in' = best_in
    /\ CompareCallStep => compare_in' = compare_in
    /\ AnalyzerCallStep => results' = results
    /\ SensitivityCallStep => sens_in' = sens_in

\* C22: no engine operation changes its arguments: after a call of
\* calculate_metrics, compare_policies, calculate_composite_score,
\* identify_best_policy, calculate_pareto_frontier, rank_policies_by_dominance,
\* calculate_hypervolume, perform_anova, calculate_confidence_intervals,
\* calculate_correlation_matrix or perform_sensitivity_analysis the caller's
\* table, mapping or metric set is what it was before the call; the
\* sensitivity analysis varies a copy of base_metrics.
C22_InputsNotMutated == [][ArgumentsKept]_vars

\* a sensitivity call whose parameter matched a keyword with a factor other
\* than one: a varied set differs from the base, which the caller still holds
C22_Witness ==
    /\ SensitivityCalled
    /\ sens_out.error = "none"
    /\ \E n \in 1..Len(sens_out.varied) : sens_out.varied[n] # sens_out.base_metrics_before
    /\ sens_in.base_metrics = sens_out.base_metrics_before

(***************************************************************************)
(* Properties of the session                                               *)
(***************************************************************************)
\* the entries of a table, each with the name of its policy
TableEntries(table) ==
    UNION {{[policy |-> table[i].name, entry |-> table[i].scenarios[j]] :
               j \in 1..Len(table[i].scenarios)} : i \in 1..Len(table)}

EntriesKept(before, after) == TableEntries(before) \subseteq TableEntries(after)

\* the table of the run goes on to the next step of the same run
RunGoesOn == Running /\ run'.state = "running"

\* C23: the policy metrics table is append-only per key: an entry written for
\* a (policy, scenario) key is still there, unchanged, after every later
\* step, be it the simulation of a policy with the same name or a later run.
C23_AppendOnlyPerKey ==
    [][/\ EntriesKept(session.simulation_results, session'.simulation_results)
       /\ RunGoesOn => EntriesKept(run.results, run'.results)]_vars

\* the step is line 730 for a policy whose name is already in the run's table
ResetsSameName == run.scenario_pos = 0 /\ has_key(run.results, current_policy_name)

OtherNamesKept ==
    {e \in TableEntries(run.results) : e.policy # current_policy_name}
        \subseteq TableEntries(run'.results)

\* the assignment after the loop
IsPublication ==
    /\ Running
    /\ LoopFinished
    /\ session'.simulation_results = run.results

\* C23 as the code has it: within a run an entry is kept by every step but
\* the start of a policy whose name is already in the table, which empties
\* that name's scenarios and no other; the session's table changes only by
\* being replaced whole with the table of a run whose loop has finished.
C23_KeptButForResetAndReplacement ==
    [][/\ RunGoesOn =>
            \/ EntriesKept(run.results, run'.results)
            \/ ResetsSameName /\ OtherNamesKept
       /\ session'.simulation_results # session.simulation_results => IsPublication]_vars

\* the second policy of the run has the name of the first and its start has
\* emptied the entries the first had written
C23_Witness ==
    /\ Running
    /\ run.policy_pos = 2
    /\ run.scenario_pos = 1
    /\ Len(run.results) = 1
    /\ run.results[1].name = current_policy_name
    /\ run.results[1].scenarios = <<>>

\* the scenario names of a policy of the table, in insertion order
ScenarioNames(scenarios) == [j \in 1..Len(scenarios) |-> scenarios[j].name]

\* every selected policy has an entry for every selected scenario
Complete(table, policy_indices, scenario_names) ==
    /\ {table[i].name : i \in 1..Len(table)} =
           {policy_name_of(session.generated_policies[policy_idx], policy_idx) :
               policy_idx \in Range(policy_indices)}
    /\ \A i \in 1..Len(table) : ScenarioNames(table[i].scenarios) = scenario_names

\* the table the pages and engines read holds whole runs only
PublishedTableWhole ==
    \/ session.simulation_results = <<>>
    \/ \E scenario_names \in ScenarioSelections :
           \A i \in 1..Len(session.simulation_results) :
               ScenarioNames(session.simulation_results[i].scenarios) = scenario_names

PublishedAfterLoop ==
    /\ session'.simulation_results # session.simulation_results =>
           /\ IsPublication
           /\ Complete(run.results, run.policy_indices, run.scenario_names)
    /\ run'.state = "failed" => session'.simulation_results = session.simulation_results

\* C24: publish-then-read: the session's simulation_results changes only by
\* the assignment after the loop, when every selected (policy, scenario) entry
\* is written; the table the pages hand to the engines is never a partly
\* written one; a run that fails midway leaves the published table as it was.
C24_PublishThenRead == [](PublishedTableWhole) /\ [][PublishedAfterLoop]_vars

\* a run failed midway while a table published by an earlier run is in the
\* session
C24_Witness ==
    /\ run.state = "failed"
    /\ session.simulation_results # <<>>

\* C29: after any user action the cached analyses are not stale: a non-empty
\* stored pareto_front is the Pareto frontier of the current
\* simulation_results, and the ANOVA result handed to
\* generate_statistical_report was computed from the current
\* simulation_results.
C29_CachedAnalysesNeverStale ==
    ~Running =>
        /\ session.pareto_front # <<>> =>
               session.pareto_front =
                   calculate_pareto_frontier(
                       page_policies_metrics(session.simulation_results))
        /\ (report.generated /\ report.stats.given) =>
               report.stats.anova =
                   perform_anova(report.results, session_p_values).anova_results

(***************************************************************************)
(* Properties of the dominance analysis as a whole                         *)
(***************************************************************************)
\* the orders in which a table of n policies can have been filled
InsertionOrders ==
    [n \in 0..MaxPolicies |->
        {f \in [1..n -> 1..n] : \A i \in 1..n, j \in 1..n : f[i] = f[j] => i = j}]

\* the same entries inserted in another order
Reordered(pm, f) == [i \in 1..Len(pm) |-> pm[f[i]]]

ReorderedTables ==
    {Reordered(policies_metrics, f) : f \in InsertionOrders[Len(policies_metrics)]}

\* C25: the dominance analysis does not depend on the insertion order of the
\* table: on every reordering of the same entries calculate_pareto_frontier
\* returns the same set of names, rank_policies_by_dominance the same mapping
\* and calculate_hypervolume the same value.
C25_OrderIndependentDominance ==
    /\ ParetoCalled =>
           \A pm \in ReorderedTables :
               Range(calculate_pareto_frontier(pm)) = Range(opt_call.result)
    /\ RankCalled =>
           \A pm \in ReorderedTables : rank_policies_by_dominance(pm) = opt_call.result
    /\ HypervolumeCalled =>
           \A pm \in ReorderedTables :
               calculate_hypervolume(pm, opt_call.reference_point) = opt_call.result

\* the frontier was computed on a table of three policies in which a policy
\* is dominated by one inserted after it
C25_Witness ==
    /\ ParetoCalled
    /\ Len(policies_metrics) >= 3
    /\ \E i \in 1..Len(policies_metrics) : \E j \in Dominators(i) : j > i
    /\ Len(opt_call.result) >= 2

\* the policies of rank 1 in a rank mapping
RankOne(ranks) == {name \in DOMAIN ranks : ranks[name] = 1}

\* C27: on a non-empty table the policies of rank 1 are the policies of the
\* Pareto frontier, whichever of the two operations is called.
C27_RankOneIsFrontier ==
    policies_metrics # <<>> =>
        /\ RankCalled =>
               RankOne(opt_call.result) =
                   Range(calculate_pareto_frontier(policies_metrics))
        /\ ParetoCalled =>
               Range(opt_call.result) =
                   RankOne(rank_policies_by_dominance(policies_metrics))

\* the ranks were computed on a table with two policies of rank 1 and one of
\* a greater rank
C27_Witness ==
    /\ RankCalled
    /\ Cardinality(RankOne(opt_call.result)) = 2
    /\ \E name \in DOMAIN opt_call.result : opt_call.result[name] > 1

\* the positions of the policies the frontier names
FrontierPositions ==
    {j \in 1..Len(policies_metrics) : policies_metrics[j].name \in Range(opt_call.result)}

\* C28: every policy left out of the frontier is dominated by a policy that
\* is in the frontier.
C28_ExcludedHasFrontierDominator ==
    ParetoCalled =>
        \A i \in (1..Len(policies_metrics)) \ FrontierPositions :
            Dominators(i) \cap FrontierPositions # {}

\* a policy left out of the frontier is dominated by another policy left out
\* of it as well
C28_Witness ==
    /\ ParetoCalled
    /\ \E i \in (1..Len(policies_metrics)) \ FrontierPositions :
           Dominators(i) \ FrontierPositions # {}

(***************************************************************************)
(* Properties of identify_best_policy under reordering                     *)
(***************************************************************************)
ReorderedResults == {Reordered(best_in, f) : f \in InsertionOrders[Len(best_in)]}

\* C26: the policy identify_best_policy returns does not depend on the
\* insertion order: on every reordering of a non-empty mapping, for every
\* objective, ties included, the same name is returned.
C26_OrderIndependentBest ==
    (BestCalled /\ best_in # <<>>) =>
        \A results_dict \in ReorderedResults :
            identify_best_policy(results_dict, best_out.objective).name = best_out.name

\* the value each policy is compared by under an objective, in table order
ComparedValues(results_dict, objective) ==
    IF objective = "composite" THEN composite_scores(results_dict)
    ELSE metric_values(results_dict, metric_map_get(objective),
                       metric_map_get(objective) \in
                           {"average_delay", "co2_emissions", "total_travel_time"})

PositionOf(results_dict, name) ==
    CHOOSE i \in 1..Len(results_dict) : results_dict[i].name = name

\* C26 as the code has it: on every reordering the policy returned has the
\* same compared value (score or metric) as the one returned for the given
\* order, and it is the first policy of that reordering with this value; so
\* the name is the same in every order when one policy alone is best, and
\* follows the insertion order when several tie.
C26_FirstOfTheBestInEveryOrder ==
    (BestCalled /\ best_in # <<>>) =>
        \A results_dict \in ReorderedResults :
            LET values == ComparedValues(results_dict, best_out.objective)
                returned ==
                    PositionOf(results_dict,
                               identify_best_policy(results_dict, best_out.objective).name)
                given == PositionOf(results_dict, best_out.name)
            IN  /\ values[returned].value = values[given].value
                /\ \A i \in 1..(returned - 1) : values[i].value # values[returned].value

\* the call was made on a mapping in which a later policy ties with the one
\* returned
C26_Witness ==
    /\ BestCalled
    /\ best_in # <<>>
    /\ LET values == ComparedValues(best_in, best_out.objective)
           returned == PositionOf(best_in, best_out.name)
       IN  \E i \in (returned + 1)..Len(best_in) :
               values[i].value = values[returned].value

(***************************************************************************)
(* Properties of identify_best_policy against the Pareto frontier          *)
(***************************************************************************)
CompositeCalled == BestCalled /\ best_out.objective = "composite" /\ best_in # <<>>

\* C30: on a non-empty mapping whose policies carry the four objective
\* metrics, the policy identify_best_policy returns for the composite
\* objective is in the Pareto frontier of the same mapping, also when
\* clamping makes a dominated policy tie with its dominator on the score.
C30_CompositeBestIsOnFrontier ==
    CompositeCalled => best_out.name \in Range(calculate_pareto_frontier(best_in))

\* what the code keeps: the policy returned is in the frontier, or a policy
\* of the frontier dominates it and has the same composite score
CompositeBestOnFrontierOrTiedWithIt ==
    CompositeCalled =>
        LET frontier == Range(calculate_pareto_frontier(best_in))
            scores == composite_scores(best_in)
            returned == PositionOf(best_in, best_out.name)
        IN  \/ best_out.name \in frontier
            \/ \E j \in 1..Len(best_in) :
                   /\ best_in[j].name \in frontier
                   /\ _dominates(obj_values(best_in[j].metrics),
                                 obj_values(best_in[returned].metrics))
                   /\ scores[j].value = scores[returned].value


====
